---- MODULE Spec2Model ----
(***************************************************************************)
(* Model of the recommendation and similarity core of tsundo-cleaner:      *)
(*   - getWeeklyRecommendation (weekly selector, two-partition revision)   *)
(*   - getSimilarBooks and the three rankers it orchestrates               *)
(* Strings that the code inspects character by character (titles,          *)
(* descriptions, the limit query parameter) are sequences of one-character *)
(* strings; strings the code only compares for equality are TLA+ strings.  *)
(***************************************************************************)
EXTENDS Integers, Sequences, FiniteSets, TLC

(***************************************************************************)
(* Bounds of the model                                                     *)
(***************************************************************************)
MaxTicks == 4          \* clock values are 0..MaxTicks half-weeks
MaxCatalog == 3        \* at most this many rows in the two tables together
MaxLimit == 2          \* the limits a caller passes are NaN and -1..MaxLimit
MaxWords == 3          \* the texts given to extractKeyTerms have 0..MaxWords words
MaxCoord == 2          \* vector components are -MaxCoord..MaxCoord
MaxRetries == 1        \* the retries a caller of query() passes are 0..MaxRetries

(***************************************************************************)
(* Characters and strings                                                  *)
(***************************************************************************)
\* the characters the model uses, in ASCII order
Alphabet ==
  <<" ", "-", ".",
    "0", "1", "2", "3", "4", "5", "6", "7", "8", "9",
    "A", "B", "C", "D", "E", "F", "G", "H", "I", "J", "K", "L", "M",
    "N", "O", "P", "Q", "R", "S", "T", "U", "V", "W", "X", "Y", "Z",
    "a", "b", "c", "d", "e", "f", "g", "h", "i", "j", "k", "l", "m",
    "n", "o", "p", "q", "r", "s", "t", "u", "v", "w", "x", "y", "z">>

CharCode(c) == CHOOSE i \in 1..Len(Alphabet) : Alphabet[i] = c

Digits == SubSeq(Alphabet, 4, 13)
UpperChars == SubSeq(Alphabet, 14, 39)
LowerChars == SubSeq(Alphabet, 40, 65)

\* String.prototype.toLowerCase, one character
ToLowerChar(c) ==
  IF \E i \in 1..Len(UpperChars) : UpperChars[i] = c
  THEN LowerChars[CHOOSE i \in 1..Len(UpperChars) : UpperChars[i] = c]
  ELSE c

ToLowerCase(s) == [i \in 1..Len(s) |-> ToLowerChar(s[i])]

\* byte-wise string comparison (SQLite BINARY collation): s sorts before t
RECURSIVE StrLess(_, _)
StrLess(s, t) ==
  IF t = <<>> THEN FALSE
  ELSE IF s = <<>> THEN TRUE
  ELSE IF CharCode(Head(s)) # CharCode(Head(t))
       THEN CharCode(Head(s)) < CharCode(Head(t))
       ELSE StrLess(Tail(s), Tail(t))

(***************************************************************************)
(* The catalog: rows of the wish and stacked tables (BookDB)               *)
(***************************************************************************)
IntroToX == <<"I","n","t","r","o"," ","t","o"," ","X">>
IntroToY == <<"I","n","t","r","o"," ","t","o"," ","Y">>
Unrelated == <<"U","n","r","e","l","a","t","e","d">>
ASmith == <<"A","."," ","S","m","i","t","h">>

BookRows ==
  <<[bookmeter_url |-> "b1", book_title |-> IntroToX, author |-> ASmith,
     publisher |-> "P", exist_in_Sophia |-> "No", exist_in_UTokyo |-> "No",
     description |-> <<>>],
    [bookmeter_url |-> "b2", book_title |-> IntroToY, author |-> ASmith,
     publisher |-> "Q", exist_in_Sophia |-> "Yes", exist_in_UTokyo |-> "No",
     description |-> <<>>],
    [bookmeter_url |-> "b3", book_title |-> Unrelated, author |-> <<"Z">>,
     publisher |-> "R", exist_in_Sophia |-> "No", exist_in_UTokyo |-> "Yes",
     description |-> <<>>],
    [bookmeter_url |-> "b4", book_title |-> <<"C","a","t","s">>,
     author |-> <<"Z">>, publisher |-> "P",
     exist_in_Sophia |-> "No", exist_in_UTokyo |-> "Yes",
     description |-> <<"c","a","t"," ","d","o","g"," ","c","a","t">>],
    [bookmeter_url |-> "b5", book_title |-> <<"D","o","g","s">>,
     author |-> <<"Y">>, publisher |-> "Q",
     exist_in_Sophia |-> "Yes", exist_in_UTokyo |-> "No",
     description |-> <<"d","o","g"," ","f","o","x">>],
    [bookmeter_url |-> "b6", book_title |-> <<"A","n","t","s">>,
     author |-> <<"Y">>, publisher |-> "R",
     exist_in_Sophia |-> "No", exist_in_UTokyo |-> "No",
     description |-> <<"c","a","t">>]>>

BookIds == {BookRows[i].bookmeter_url : i \in 1..Len(BookRows)}

\* the primary keys of n further rows, which fill a table beyond the
\* number of rows one candidate query returns
FillerKeys(n) == [i \in 1..n |-> "f" \o ToString(i)]

\* the filler row with primary key id: no description, the same title,
\* author and publisher for all
FillerRow(id) ==
  [bookmeter_url |-> id, book_title |-> <<"F">>, author |-> <<"W">>,
   publisher |-> "F", exist_in_Sophia |-> "No", exist_in_UTokyo |-> "No",
   description |-> <<>>]

\* the row with primary key id; rows are never written by the services, so
\* a table is kept in the state as the sequence of its primary keys
RowById ==
  [id \in BookIds |->
     BookRows[CHOOSE i \in 1..Len(BookRows) : BookRows[i].bookmeter_url = id]]

RowOf(id) == IF id \in BookIds THEN RowById[id] ELSE FillerRow(id)

RECURSIVE KeysFrom(_, _)
KeysFrom(ids, i) ==
  IF i > Len(BookRows) THEN <<>>
  ELSE (IF BookRows[i].bookmeter_url \in ids THEN <<BookRows[i].bookmeter_url>> ELSE <<>>)
       \o KeysFrom(ids, i + 1)

\* the table holding the books ids, in insertion (rowid) order
TableOf(ids) == KeysFrom(ids, 1)

\* every way to put at most MaxCatalog books into the two tables; the
\* primary key bookmeter_url is unique over the catalog
Catalogs ==
  {c \in [wish : SUBSET BookIds, stacked : SUBSET BookIds] :
     /\ c.wish \cap c.stacked = {}
     /\ Cardinality(c.wish \cup c.stacked) <= MaxCatalog}

\* bookService.convertToAppModel: 'Yes'/'No' become booleans
convertToAppModel(dbBook) ==
  [dbBook EXCEPT !.exist_in_Sophia = (dbBook.exist_in_Sophia = "Yes"),
                 !.exist_in_UTokyo = (dbBook.exist_in_UTokyo = "Yes")]

\* rows with titles of repeated words, empty titles and blank descriptions;
\* they are given to the rankers, the tables of the model do not hold them
MoreRows ==
  <<[bookmeter_url |-> "b7", book_title |-> <<"C","a","t","s"," ","c","a","t","s">>,
     author |-> <<"Z">>, publisher |-> "P",
     exist_in_Sophia |-> "No", exist_in_UTokyo |-> "No",
     description |-> <<>>],
    [bookmeter_url |-> "b8", book_title |-> <<>>,
     author |-> <<"Y">>, publisher |-> "S",
     exist_in_Sophia |-> "No", exist_in_UTokyo |-> "No",
     description |-> <<" "," ">>],
    [bookmeter_url |-> "b9", book_title |-> <<>>,
     author |-> <<"X">>, publisher |-> "T",
     exist_in_Sophia |-> "No", exist_in_UTokyo |-> "No",
     description |-> <<"T","h","e"," ","f","o","x",".">>]>>

\* the books the rankers are called with
SampleIds == {"b1", "b2", "b4", "b5", "b7", "b8", "b9"}

\* the Book (application model) with the given url
BookById ==
  LET rows == BookRows \o MoreRows
  IN [id \in {rows[i].bookmeter_url : i \in 1..Len(rows)} |->
        convertToAppModel(rows[CHOOSE i \in 1..Len(rows) : rows[i].bookmeter_url = id])]

BookOf(id) == BookById[id]

BooksAt(ids) == [i \in 1..Len(ids) |-> BookOf(ids[i])]

(***************************************************************************)
(* SQL the services issue                                                  *)
(***************************************************************************)
RECURSIVE InsertByTitle(_, _)
InsertByTitle(row, sorted) ==
  IF sorted = <<>> THEN <<row>>
  ELSE IF StrLess(RowOf(row).book_title, RowOf(Head(sorted)).book_title)
       THEN <<row>> \o sorted
       ELSE <<Head(sorted)>> \o InsertByTitle(row, Tail(sorted))

RECURSIVE OrderByTitle(_)
\* ORDER BY book_title (rows with equal titles keep their rowid order)
OrderByTitle(rows) ==
  IF rows = <<>> THEN <<>>
  ELSE InsertByTitle(rows[Len(rows)], OrderByTitle(SubSeq(rows, 1, Len(rows) - 1)))

TierMatches_swapped(tier, row) ==
  CASE tier = 1 -> RowOf(row).exist_in_Sophia = "Yes"
    [] tier = 2 -> RowOf(row).exist_in_UTokyo = "Yes"
    [] OTHER -> TRUE

TierMatches(tier, row) ==
  CASE tier = 1 -> RowOf(row).exist_in_UTokyo = "Yes"
    [] tier = 2 -> RowOf(row).exist_in_Sophia = "Yes"
    [] OTHER -> TRUE

\* SELECT * FROM table [WHERE exist_in_X = 'Yes'] ORDER BY book_title
TierQuery(table, tier) ==
  OrderByTitle(SelectSeq(table, LAMBDA row : TierMatches(tier, row)))

WithType(rows, bookType) ==
  [i \in 1..Len(rows) |-> [row |-> rows[i], bookType |-> bookType]]

(***************************************************************************)
(* JavaScript helpers used by the similarity service                       *)
(***************************************************************************)
IsSpace(c) == c = " "

\* \w of a JavaScript regular expression, over the model's alphabet
IsWordChar(c) == c \notin {" ", "-", "."}

\* description && description.trim() !== ''
HasText(s) == \E i \in 1..Len(s) : ~IsSpace(s[i])

RECURSIVE SplitOn(_, _, _, _)
\* String.prototype.split on a regular expression Sep+ : maximal runs of
\* separator characters split the string, empty pieces are kept
SplitOn(IsSep(_), s, cur, inSep) ==
  IF s = <<>> THEN <<cur>>
  ELSE IF IsSep(Head(s))
       THEN IF inSep THEN SplitOn(IsSep, Tail(s), cur, TRUE)
            ELSE <<cur>> \o SplitOn(IsSep, Tail(s), <<>>, TRUE)
       ELSE SplitOn(IsSep, Tail(s), Append(cur, Head(s)), FALSE)

\* s.split(/\s+/)
SplitWhitespace(s) == SplitOn(IsSpace, s, <<>>, FALSE)

\* Array.prototype.includes
Includes(seq, x) == \E i \in 1..Len(seq) : seq[i] = x

RECURSIVE Dedup(_, _)
\* [...new Set(words)] : first occurrences, in order; seen holds the prefix
Dedup(words, seen) ==
  IF words = <<>> THEN seen
  ELSE Dedup(Tail(words),
             IF Includes(seen, Head(words)) THEN seen ELSE Append(seen, Head(words)))

\* a JavaScript number that is either NaN or an integer
NaN == [nan |-> TRUE, n |-> 0]
Num(n) == [nan |-> FALSE, n |-> n]

\* Array.prototype.slice(0, end): NaN counts as 0, a negative end counts
\* from the end of the array
Slice(seq, end) ==
  LET rel == IF end.nan THEN 0 ELSE end.n
      final == IF rel < 0 THEN (IF Len(seq) + rel < 0 THEN 0 ELSE Len(seq) + rel)
               ELSE (IF rel > Len(seq) THEN Len(seq) ELSE rel)
  IN SubSeq(seq, 1, final)

RECURSIVE InsertDesc(_, _, _)
InsertDesc(Gt(_, _), item, sorted) ==
  IF sorted = <<>> THEN <<item>>
  ELSE IF Gt(item.score, Head(sorted).score)
       THEN <<item>> \o sorted
       ELSE <<Head(sorted)>> \o InsertDesc(Gt, item, Tail(sorted))

RECURSIVE SortDesc(_, _)
\* items.sort((a, b) => b.score - a.score): stable, descending by score;
\* Gt(x, y) says that score x is greater than score y
SortDesc(Gt(_, _), items) ==
  IF items = <<>> THEN <<>>
  ELSE InsertDesc(Gt, items[Len(items)],
                  SortDesc(Gt, SubSeq(items, 1, Len(items) - 1)))

\* .map(item => item.book); a list of books is returned as their urls
BooksOf(items) == [i \in 1..Len(items) |-> items[i].book.bookmeter_url]

(***************************************************************************)
(* Metadata ranker                                                         *)
(***************************************************************************)
IntGt_orEqual(x, y) == x >= y

\* (a, b) => b.score - a.score puts a first when a.score > b.score
IntGt(x, y) == x > y

TitleAuthorScore_distinct(referenceBook, book) ==
  LET refTitleWords == SplitWhitespace(ToLowerCase(referenceBook.book_title))
      targetTitleWords == SplitWhitespace(ToLowerCase(book.book_title))
      matches == Cardinality({w \in {refTitleWords[i] : i \in 1..Len(refTitleWords)} :
                                w # <<>> /\ Includes(targetTitleWords, w)})
  IN 3 * matches
     + (IF referenceBook.author = book.author THEN 5 ELSE 0)
     + (IF referenceBook.publisher = book.publisher THEN 2 ELSE 0)

\* the score findSimilarByTitleAndAuthor gives one candidate
TitleAuthorScore(referenceBook, book) ==
  LET refTitleWords == SplitWhitespace(ToLowerCase(referenceBook.book_title))
      targetTitleWords == SplitWhitespace(ToLowerCase(book.book_title))
      matches == Cardinality({i \in 1..Len(refTitleWords) :
                                Includes(targetTitleWords, refTitleWords[i])})
  IN 3 * matches
     + (IF referenceBook.author = book.author THEN 5 ELSE 0)
     + (IF referenceBook.publisher = book.publisher THEN 2 ELSE 0)

findSimilarByTitleAndAuthor(referenceBook, targetBooks, limit) ==
  LET similarityScores ==
        [i \in 1..Len(targetBooks) |->
           [book |-> targetBooks[i],
            score |-> TitleAuthorScore(referenceBook, targetBooks[i])]]
  IN BooksOf(Slice(SortDesc(IntGt, similarityScores), limit))

(***************************************************************************)
(* Lexical ranker: extractKeyTerms and the TfIdf class of 'natural'        *)
(***************************************************************************)
DefaultMaxTerms == 20

KeyTermStopWords ==
  {<<"t","h","e">>, <<"a","n","d">>, <<"f","o","r">>, <<"w","i","t","h">>,
   <<"t","h","i","s">>, <<"t","h","a","t">>}

extractKeyTerms_noDedup(text, maxTerms) ==
  LET stripped == SelectSeq(ToLowerCase(text),
                            LAMBDA c : IsWordChar(c) \/ IsSpace(c))
      long == SelectSeq(SplitWhitespace(stripped), LAMBDA w : Len(w) > 2)
      words == SelectSeq(long, LAMBDA w : w \notin KeyTermStopWords)
  IN Slice(words, maxTerms)

\* text.toLowerCase().replace(/[^\w\s]/g, '').split(/\s+/) ... slice
extractKeyTerms(text, maxTerms) ==
  LET stripped == SelectSeq(ToLowerCase(text),
                            LAMBDA c : IsWordChar(c) \/ IsSpace(c))
      long == SelectSeq(SplitWhitespace(stripped), LAMBDA w : Len(w) > 2)
      words == SelectSeq(long, LAMBDA w : w \notin KeyTermStopWords)
  IN Slice(Dedup(words, <<>>), maxTerms)

\* stop words of 'natural' (the short ones; the texts of the model use no other)
NaturalStopWords ==
  KeyTermStopWords \cup
  {<<"a">>, <<"b">>, <<"c">>, <<"d">>, <<"e">>, <<"f">>, <<"g">>, <<"h">>,
   <<"i">>, <<"j">>, <<"k">>, <<"l">>, <<"m">>, <<"n">>, <<"o">>, <<"p">>,
   <<"q">>, <<"r">>, <<"s">>, <<"t">>, <<"u">>, <<"v">>, <<"w">>, <<"x">>,
   <<"y">>, <<"z">>,
   <<"0">>, <<"1">>, <<"2">>, <<"3">>, <<"4">>, <<"5">>, <<"6">>, <<"7">>,
   <<"8">>, <<"9">>,
   <<"t","o">>, <<"b","y">>, <<"a","n">>, <<"a","s">>, <<"a","t">>,
   <<"i","n">>, <<"i","s">>, <<"i","t">>, <<"o","n">>, <<"o","r">>,
   <<"a","l","l">>, <<"a","r","e">>, <<"b","u","t">>, <<"c","a","n">>,
   <<"d","i","d">>, <<"h","a","s">>, <<"h","a","d">>, <<"h","i","s">>,
   <<"n","o","w">>, <<"o","u","r">>, <<"o","u","t">>, <<"s","e","e">>}

\* WordTokenizer.tokenize of the lower-cased text: split on runs of
\* non-word characters, empty pieces dropped
Tokenize(text) ==
  SelectSeq(SplitOn(LAMBDA c : ~IsWordChar(c), ToLowerCase(text), <<>>, FALSE),
            LAMBDA w : w # <<>>)

\* TfIdf.addDocument: the document is its non-stop-word tokens
BuildDocument(text) ==
  SelectSeq(Tokenize(text), LAMBDA w : w \notin NaturalStopWords)

\* tf(term, document): occurrences of term in the document
Tf(term, document) ==
  Cardinality({i \in 1..Len(document) : document[i] = term})

\* 10^6 * ln(n), consistent with ln(a*b) = ln(a) + ln(b)
LnMicro ==
  <<0, 693147, 1098612, 1386294, 1609438, 1791759, 1945910, 2079441,
    2197224, 2302585, 2397895, 2484906>>

\* TfIdf.idf: 1 + ln(N / (1 + df)), in millionths
Idf(term, documents) ==
  LET docsWithTerm == Cardinality({d \in 1..Len(documents) :
                                     Tf(term, documents[d]) > 0})
  IN 1000000 + LnMicro[Len(documents)] - LnMicro[1 + docsWithTerm]

\* TfIdf.tfidf(term, d): the term is tokenized, each token contributes
\* tf * idf; d is a 0-based document index
TfIdfOf(term, d, documents) ==
  LET terms == Tokenize(term)
      Contribution(i) == Tf(terms[i], documents[d + 1]) * Idf(terms[i], documents)
      Sum[i \in 0..Len(terms)] ==
        IF i = 0 THEN 0 ELSE Sum[i - 1] + Contribution(i)
  IN Sum[Len(terms)]

\* targetBooks.filter(book => book.description && book.description.trim() !== '')
WithDescription(targetBooks) ==
  SelectSeq(targetBooks, LAMBDA book : HasText(book.description))

DescriptionScores_sameIndex(referenceBook, validTargetBooks) ==
  LET documents == <<BuildDocument(referenceBook.description)>> \o
                   [i \in 1..Len(validTargetBooks) |->
                      BuildDocument(validTargetBooks[i].description)]
      terms == extractKeyTerms(referenceBook.description, Num(DefaultMaxTerms))
      Score[index \in 0..Len(validTargetBooks) - 1, k \in 0..Len(terms)] ==
        IF k = 0 THEN 0
        ELSE Score[index, k - 1] + TfIdfOf(terms[k], index, documents)
  IN [i \in 1..Len(validTargetBooks) |-> Score[i - 1, Len(terms)]]

\* the scores findSimilarByDescription gives the candidates that have a
\* description: for each, the sum of tfidf.tfidf(term, docIndex) over the
\* key terms of the reference
DescriptionScores(referenceBook, validTargetBooks) ==
  LET documents == <<BuildDocument(referenceBook.description)>> \o
                   [i \in 1..Len(validTargetBooks) |->
                      BuildDocument(validTargetBooks[i].description)]
      terms == extractKeyTerms(referenceBook.description, Num(DefaultMaxTerms))
      Score[index \in 0..Len(validTargetBooks) - 1, k \in 0..Len(terms)] ==
        IF k = 0 THEN 0
        ELSE Score[index, k - 1] + TfIdfOf(terms[k], index + 1, documents)
  IN [i \in 1..Len(validTargetBooks) |-> Score[i - 1, Len(terms)]]

findSimilarByDescription(referenceBook, targetBooks, limit) ==
  LET validTargetBooks == WithDescription(targetBooks)
      scores == DescriptionScores(referenceBook, validTargetBooks)
      similarityScores ==
        [i \in 1..Len(validTargetBooks) |->
           [book |-> validTargetBooks[i], score |-> scores[i]]]
  IN IF Len(validTargetBooks) = 0 THEN <<>>
     ELSE BooksOf(Slice(SortDesc(IntGt, similarityScores), limit))

(***************************************************************************)
(* Semantic ranker: embeddings and cosine similarity                       *)
(***************************************************************************)
Occurrences(text, c) == Cardinality({i \in 1..Len(text) : text[i] = c})

\* the external embedder: a deterministic function from text to a vector
Embed(text) == <<Occurrences(text, "c") - 1, Occurrences(text, "d") - 1>>

TextForEmbedding_titleOnly(book) ==
  book.book_title \o <<" ","b","y"," ">> \o book.author

\* the text getBookEmbedding sends to the embedder
TextForEmbedding(book) ==
  IF HasText(book.description)
  THEN book.description
  ELSE book.book_title \o <<" ","b","y"," ">> \o book.author

Dot(vec1, vec2) ==
  LET Sum[i \in 0..Len(vec1)] ==
        IF i = 0 THEN 0 ELSE Sum[i - 1] + vec1[i] * vec2[i]
  IN Sum[Len(vec1)]

Sign(x) == IF x > 0 THEN 1 ELSE IF x < 0 THEN -1 ELSE 0

calculateCosineSimilarity_noGuard(vec1, vec2) ==
  [sgn |-> Sign(Dot(vec1, vec2)), num |-> Dot(vec1, vec2) * Dot(vec1, vec2),
   den |-> Dot(vec1, vec1) * Dot(vec2, vec2)]

\* calculateCosineSimilarity for vectors of equal length. The value
\* dot / (sqrt(m1) * sqrt(m2)) is kept exactly, as sgn * sqrt(num / den);
\* a zero magnitude gives 0
calculateCosineSimilarity(vec1, vec2) ==
  LET dotProduct == Dot(vec1, vec2)
      m1 == Dot(vec1, vec1)
      m2 == Dot(vec2, vec2)
  IN IF m1 = 0 \/ m2 = 0
     THEN [sgn |-> 0, num |-> 0, den |-> 1]
     ELSE [sgn |-> Sign(dotProduct), num |-> dotProduct * dotProduct,
           den |-> m1 * m2]

ErrorScore_zero == [sgn |-> 0, num |-> 0, den |-> 1]

\* the score -1 given to a candidate whose embedding lookup failed
ErrorScore == [sgn |-> -1, num |-> 1, den |-> 1]

\* x > y for two scores sgn * sqrt(num / den)
ScoreGt(x, y) ==
  IF x.sgn # y.sgn THEN x.sgn > y.sgn
  ELSE IF x.sgn = 0 THEN FALSE
  ELSE IF x.sgn > 0 THEN x.num * y.den > y.num * x.den
  ELSE x.num * y.den < y.num * x.den

\* the tail of findSimilarByEmbeddings once every candidate has a score:
\* filter(score >= 0), sort, slice, map
RankByScore(similarityScores, limit) ==
  BooksOf(Slice(SortDesc(ScoreGt,
                         SelectSeq(similarityScores,
                                   LAMBDA item : item.score.sgn >= 0)),
                limit))

\* findSimilarByEmbeddings as a function of its arguments: the embedder is
\* deterministic and every lookup succeeds
findSimilarByEmbeddings(referenceBook, targetBooks, limit) ==
  IF Len(targetBooks) = 0 THEN <<>>
  ELSE LET refEmbedding == Embed(TextForEmbedding(referenceBook))
           scores ==
             [i \in 1..Len(targetBooks) |->
                [book |-> targetBooks[i],
                 score |-> calculateCosineSimilarity(
                             refEmbedding, Embed(TextForEmbedding(targetBooks[i])))]]
       IN RankByScore(scores, limit)

(***************************************************************************)
(* State                                                                   *)
(***************************************************************************)
VARIABLES
  wish, stacked,      \* the two tables of the books database
  now,                \* clock value read by the running weekly call
  weekNumber,         \* getWeeklyRecommendation: weekNumber
  books,              \* getWeeklyRecommendation: books
  wkPc,               \* position of the weekly call: idle, wish, stacked, done
  wkTier,             \* 1 = UTokyo queries, 2 = Sophia queries, 3 = all books
  wkRows,             \* rows returned by the wish query of the current tier
  wkFailed,           \* tiers of which a query was rejected in this call
  wkResult,           \* outcome of the weekly call
  wkPrev,             \* outcome of the weekly call completed before this one
  cache,              \* the embedding cache: book id -> <<>> or <<vector>>
  simPc,              \* position of the similarity call
  simArgs,            \* getSimilarBooks: referenceBookUrl, type, limit
  referenceBook,      \* getSimilarBooks: <<>> or <<referenceBook>>
  targetBooks,        \* getSimilarBooks: targetBooks
  referenceEmbedding, \* findSimilarByEmbeddings: <<>> or <<vector>>
  similarityScores,   \* findSimilarByEmbeddings: per candidate <<>> or <<score>>
  simOutcome,         \* how each embedding lookup of this call ended
  simLog,             \* external calls issued by this call, counted
  simResult,          \* outcome of the similarity call
  call,               \* a pure function under evaluation: name, arguments, result
  firebaseService,    \* Database: whether a Firebase service was created
  isSyncing,          \* Database.isSyncing
  queryQueue,         \* Database.queryQueue: the waiting queries, oldest first
  db,                 \* Database.db: <<>> or <<the file the connection is open on>>
  localFile,          \* content of the file at config.path
  tempFile,           \* the file at config.path + '.tmp': <<>> or <<content>>
  syncPc,             \* per caller: its position in syncDatabaseFromFirebase
  syncReturn,         \* <<>> or <<what the sync call that returned last returned>>
  queries,            \* per call of query(): position, attempt, outcome
  submitted,          \* history: the queries queued so far, in submission order
  started             \* history: the queued queries started so far, in start order

weeklyVars ==
  <<now, weekNumber, books, wkPc, wkTier, wkRows, wkFailed, wkResult, wkPrev>>

simVars ==
  <<cache, simPc, simArgs, referenceBook, targetBooks, referenceEmbedding,
    similarityScores, simOutcome, simLog, simResult>>

dbVars ==
  <<firebaseService, isSyncing, queryQueue, db, localFile, tempFile, syncPc,
    syncReturn, queries, submitted, started>>

vars == <<wish, stacked, weeklyVars, simVars, call, dbVars>>

NoResult == [kind |-> "none", value |-> <<>>]

\* no embedding lookup has settled: ref is the outcome of the reference
\* lookup, cand the outcomes of the candidate lookups ("" while unsettled)
NoOutcome == [ref |-> "", cand |-> <<>>]

\* no pure function is under evaluation
NoCall == [name |-> "none"]

\* no external call issued yet
NoCalls == [store |-> 0, storeFailed |-> FALSE, cache |-> 0, embed |-> 0]
Failure(kind) == [kind |-> kind, value |-> <<>>]

\* the callers of syncDatabaseFromFirebase: the constructor, the interval
\* timer of setupAutoSync, and any other caller
Callers == {"initial", "timer", "manual"}

\* the calls of Database.query of the model
QueryIds == {"q1", "q2"}

\* a call of query() not made yet. retries is options.retries, attempt the
\* loop variable, execs counts the starts of executeQuery, inSync tells
\* that one of them happened while isSyncing was set, error is the error
\* caught last: <<>> or <<message, attempt>>
NewQuery ==
  [pc |-> "idle", retries |-> [nan |-> TRUE, n |-> 0], queued |-> FALSE,
   attempt |-> 0, execs |-> 0, inSync |-> FALSE, error |-> <<>>]

\* no call of syncDatabaseFromFirebase has returned
NoReturn == <<>>

\* a Database without Firebase service, before its first query
DbIdle ==
  /\ firebaseService = FALSE
  /\ isSyncing = FALSE
  /\ queryQueue = <<>>
  /\ db = <<>>
  /\ localFile = "local"
  /\ tempFile = <<>>
  /\ syncPc = [c \in Callers |-> "idle"]
  /\ syncReturn = NoReturn
  /\ queries = [q \in QueryIds |-> NewQuery]
  /\ submitted = <<>>
  /\ started = <<>>
Success(v) == [kind |-> "ok", value |-> v]

(***************************************************************************)
(* getWeeklyRecommendation                                                 *)
(***************************************************************************)
WeekMillis == 7 * 24 * 60 * 60 * 1000

\* the clock values a call can read: every half week up to MaxTicks
Clock == {k * (WeekMillis \div 2) : k \in 0..MaxTicks}

WeekNumberOf_days(t) == t \div (24 * 60 * 60 * 1000)

\* Math.floor(now.getTime() / (7 * 24 * 60 * 60 * 1000))
WeekNumberOf(t) == t \div WeekMillis

RandomIndex_everyOtherWeek(week, len) == (week \div 2) % len

\* weekNumber % books.length
RandomIndex(week, len) == week % len

\* { ...convertToAppModel(selectedBook), bookType: selectedBook.bookType }
ResultWithType(selectedBook) ==
  LET result == convertToAppModel(RowOf(selectedBook.row))
  IN [f \in DOMAIN result \cup {"bookType"} |->
        IF f = "bookType" THEN selectedBook.bookType ELSE result[f]]

\* the synchronous tail of the call: empty check, index, conversion
WeeklyFinish(bs, week) ==
  IF Len(bs) = 0
  THEN Failure("NotFoundError")
  ELSE Success(<<ResultWithType(bs[RandomIndex(week, Len(bs)) + 1])>>)

MergeTier_stackedFirst(wishRows, stackedRows) ==
  WithType(stackedRows, "stacked") \o WithType(wishRows, "wish")

MergeTier_wishOnly(wishRows, stackedRows) == WithType(wishRows, "wish")

\* [...wishRows.map(tag 'wish'), ...stackedRows.map(tag 'stacked')]
MergeTier(wishRows, stackedRows) ==
  WithType(wishRows, "wish") \o WithType(stackedRows, "stacked")

\* what follows the try block of a tier once books is assigned (or left
\* empty by the catch): the next tier when books is empty, else the tail
AfterTier(bs) ==
  /\ books' = bs
  /\ IF Len(bs) = 0 /\ wkTier < 3
     THEN /\ wkTier' = wkTier + 1
          /\ wkPc' = "wish"
          /\ wkResult' = wkResult
     ELSE /\ wkTier' = wkTier
          /\ wkPc' = "done"
          /\ wkResult' = WeeklyFinish(bs, weekNumber)

\* a request arrives: read the clock, compute the week number. (A
\* behaviour follows the requests to one endpoint: the weekly selector and
\* the similarity service share no state that either of them writes.)
WeeklyCall(t) ==
  /\ wkPc \in {"idle", "done"}
  /\ simPc = "idle"
  /\ now' = t
  /\ weekNumber' = WeekNumberOf(t)
  /\ books' = <<>>
  /\ wkTier' = 1
  /\ wkRows' = <<>>
  /\ wkFailed' = {}
  /\ wkResult' = NoResult
  /\ wkPc' = "wish"
  /\ wkPrev' = IF wkPc = "done"
               THEN <<[now |-> now, failed |-> wkFailed, books |-> books,
                       result |-> wkResult]>>
               ELSE wkPrev
  /\ UNCHANGED <<dbVars, call, wish, stacked, simVars>>

\* the wish query of the current tier resolves
WishQueryOk ==
  /\ wkPc = "wish"
  /\ wkRows' = TierQuery(wish, wkTier)
  /\ wkPc' = "stacked"
  /\ UNCHANGED <<dbVars, call, wish, stacked, now, weekNumber, books, wkTier, wkFailed,
                 wkResult, wkPrev, simVars>>

\* the stacked query of the current tier resolves: merge, then go on
StackedQueryOk ==
  /\ wkPc = "stacked"
  /\ AfterTier(MergeTier(wkRows, TierQuery(stacked, wkTier)))
  /\ wkRows' = <<>>
  /\ UNCHANGED <<dbVars, call, wish, stacked, now, weekNumber, wkFailed, wkPrev, simVars>>

\* the catch block of the last tier: throw queryErr
OnLastTierError == Failure("StoreError")

\* a query of the current tier is rejected: tiers 1 and 2 log it and go
\* on with books still empty, tier 3 rethrows
TierQueryFail ==
  /\ wkPc \in {"wish", "stacked"}
  /\ wkFailed' = wkFailed \cup {wkTier}
  /\ wkRows' = <<>>
  /\ IF wkTier < 3
     THEN AfterTier(<<>>)
     ELSE /\ wkResult' = OnLastTierError
          /\ wkPc' = "done"
          /\ UNCHANGED <<books, wkTier>>
  /\ UNCHANGED <<dbVars, call, wish, stacked, now, weekNumber, wkPrev, simVars>>

WeeklyIdle ==
  /\ now = 0
  /\ weekNumber = 0
  /\ books = <<>>
  /\ wkPc = "idle"
  /\ wkTier = 1
  /\ wkRows = <<>>
  /\ wkFailed = {}
  /\ wkResult = NoResult
  /\ wkPrev = <<>>

SimilarIdle ==
  /\ simPc = "idle"
  /\ simArgs = [url |-> "", type |-> "wish", limit |-> Num(0)]
  /\ referenceBook = <<>>
  /\ targetBooks = <<>>
  /\ referenceEmbedding = <<>>
  /\ similarityScores = <<>>
  /\ simOutcome = NoOutcome
  /\ simLog = NoCalls
  /\ simResult = NoResult

InitWeekly ==
  /\ \E c \in Catalogs :
       /\ wish = TableOf(c.wish)
       /\ stacked = TableOf(c.stacked)
  /\ cache = [id \in BookIds |-> <<>>]
  /\ WeeklyIdle
  /\ SimilarIdle
  /\ call = NoCall
  /\ DbIdle

NextWeekly ==
  \/ \E t \in Clock : WeeklyCall(t)
  \/ WishQueryOk
  \/ StackedQueryOk
  \/ TierQueryFail

SpecWeekly == InitWeekly /\ [][NextWeekly]_vars

(***************************************************************************)
(* getBookEmbedding and the embedding cache                                *)
(***************************************************************************)
\* the ways one getBookEmbedding call can end: the cache read throws; the
\* cache has the vector; the embedder throws; the embedder answers and the
\* cache write throws; the embedder answers and the vector is saved
Outcomes == {"readFail", "hit", "embedFail", "saveFail", "ok"}

\* embeddingCache.getEmbedding(id): the cached vector, or null
CacheGet(c, id) == c[id]

\* embeddingCache.saveEmbedding(id, embedding)
CacheSave(c, id, embedding) == [c EXCEPT ![id] = <<embedding>>]

OutcomePossible(book, o, c) ==
  CASE o = "readFail" -> TRUE
    [] o = "hit" -> CacheGet(c, book.bookmeter_url) # <<>>
    [] OTHER -> CacheGet(c, book.bookmeter_url) = <<>>

getBookEmbedding_sharedKey(book, o, c) ==
  LET id == book.bookmeter_url
      embedding == Embed(TextForEmbedding(book))
  IN CASE o = "readFail" ->
            [thrown |-> TRUE, value |-> <<>>, cache |-> c, gets |-> 1, embeds |-> 0, saves |-> 0]
       [] o = "hit" ->
            [thrown |-> FALSE, value |-> CacheGet(c, id), cache |-> c, gets |-> 1, embeds |-> 0, saves |-> 0]
       [] o = "embedFail" ->
            [thrown |-> TRUE, value |-> <<>>, cache |-> c, gets |-> 1, embeds |-> 1, saves |-> 0]
       [] o = "saveFail" ->
            [thrown |-> TRUE, value |-> <<>>, cache |-> c, gets |-> 1, embeds |-> 1, saves |-> 1]
       [] OTHER ->
            [thrown |-> FALSE, value |-> <<embedding>>,
             cache |-> [k \in DOMAIN c |-> <<embedding>>],
             gets |-> 1, embeds |-> 1, saves |-> 1]

\* getBookEmbedding(book) ending as o: whether it throws, the vector it
\* returns, the cache afterwards and the external calls it issued
getBookEmbedding(book, o, c) ==
  LET id == book.bookmeter_url
      embedding == Embed(TextForEmbedding(book))
  IN CASE o = "readFail" ->
            [thrown |-> TRUE, value |-> <<>>, cache |-> c, gets |-> 1, embeds |-> 0, saves |-> 0]
       [] o = "hit" ->
            [thrown |-> FALSE, value |-> CacheGet(c, id), cache |-> c, gets |-> 1, embeds |-> 0, saves |-> 0]
       [] o = "embedFail" ->
            [thrown |-> TRUE, value |-> <<>>, cache |-> c, gets |-> 1, embeds |-> 1, saves |-> 0]
       [] o = "saveFail" ->
            [thrown |-> TRUE, value |-> <<>>, cache |-> c, gets |-> 1, embeds |-> 1, saves |-> 1]
       [] OTHER ->
            [thrown |-> FALSE, value |-> <<embedding>>,
             cache |-> CacheSave(c, id, embedding), gets |-> 1, embeds |-> 1, saves |-> 1]

LogEmbedding(log, r) ==
  [log EXCEPT !.cache = @ + r.gets + r.saves, !.embed = @ + r.embeds]

(***************************************************************************)
(* getSimilarBooks                                                         *)
(***************************************************************************)
CandidateCap == 100

BookTypes == {"wish", "stacked"}

\* the requests of the model, for a set of limit values: every book of the
\* catalog or an unknown url with either table, a missing url, and a type
\* that is no table
Requests(limits) ==
  [url : {wish[i] : i \in 1..Len(wish)} \cup {stacked[i] : i \in 1..Len(stacked)}
         \cup {"b0"},
   type : BookTypes, limit : limits]
  \cup [url : {""}, type : {"wish"}, limit : limits]
  \cup [url : {"b1"}, type : {"read"}, limit : limits]

\* the limits a caller passes to the service
Limits == {NaN} \cup {Num(n) : n \in -1..MaxLimit}

\* the limit query parameters a client sends to the controller
LimitParams ==
  {<<"a","b","c">>, <<"-","1">>} \cup {<<Digits[n + 1]>> : n \in 0..MaxLimit}

DigitValue(c) == (CHOOSE i \in 1..Len(Digits) : Digits[i] = c) - 1

IsDigit(c) == \E i \in 1..Len(Digits) : Digits[i] = c

RECURSIVE ParseDigits(_, _)
\* the value of the longest prefix of digits of s, acc being the value so far
ParseDigits(s, acc) ==
  IF s = <<>> \/ ~IsDigit(Head(s)) THEN acc
  ELSE ParseDigits(Tail(s), 10 * acc + DigitValue(Head(s)))

RECURSIVE parseInt(_)
\* parseInt(s, 10): leading whitespace, a sign, digits; NaN without a digit
parseInt(s) ==
  IF s # <<>> /\ IsSpace(Head(s)) THEN parseInt(Tail(s))
  ELSE LET negative == s # <<>> /\ Head(s) = "-"
           rest == IF negative THEN Tail(s) ELSE s
       IN IF rest = <<>> \/ ~IsDigit(Head(rest)) THEN NaN
          ELSE Num((IF negative THEN -1 ELSE 1) * ParseDigits(rest, 0))

\* validateBookType
ValidBookType(type) == type \in BookTypes

TableNamed(type) == IF type = "wish" THEN wish ELSE stacked

ReferenceQuery_anyTable(type, url) ==
  SelectSeq(wish \o stacked, LAMBDA row : RowOf(row).bookmeter_url = url)

\* SELECT * FROM type WHERE bookmeter_url = ?
ReferenceQuery(type, url) ==
  SelectSeq(TableNamed(type), LAMBDA row : RowOf(row).bookmeter_url = url)

TargetQuery_noLimit(type, url) ==
  SelectSeq(TableNamed(type), LAMBDA row : RowOf(row).bookmeter_url # url)

\* SELECT * FROM type WHERE bookmeter_url != ? LIMIT 100
TargetQuery(type, url) ==
  LET rows == SelectSeq(TableNamed(type), LAMBDA row : RowOf(row).bookmeter_url # url)
  IN SubSeq(rows, 1, IF Len(rows) > CandidateCap THEN CandidateCap ELSE Len(rows))

\* the catch block of getSimilarBooks: the ranking used when
\* findSimilarByEmbeddings throws
Fallback(refBook, targets, limit) ==
  IF ~HasText(refBook.description)
  THEN findSimilarByTitleAndAuthor(refBook, WithDescription(targets), limit)
  ELSE findSimilarByDescription(refBook, WithDescription(targets), limit)

\* the books held by the locals referenceBook and targetBooks, which the
\* state keeps as urls: referenceBook = convertToAppModel(referenceBooks[0]),
\* targetBooks = targetDbBooks.map(convertToAppModel)
ReferenceBook == convertToAppModel(RowOf(referenceBook[1]))

TargetBooks == [i \in 1..Len(targetBooks) |-> convertToAppModel(RowOf(targetBooks[i]))]

SimFinish(result) ==
  /\ simResult' = result
  /\ simPc' = "done"

\* the body of the service function up to its first await
EnterService(url, type, limit) ==
  /\ simArgs' = [url |-> url, type |-> type, limit |-> limit]
  /\ referenceBook' = <<>>
  /\ targetBooks' = <<>>
  /\ referenceEmbedding' = <<>>
  /\ similarityScores' = <<>>
  /\ simOutcome' = NoOutcome
  /\ simLog' = NoCalls
  /\ IF ~ValidBookType(type) \/ url = ""
     THEN SimFinish(Failure("ValidationError"))
     ELSE /\ simPc' = "ref"
          /\ simResult' = NoResult
  /\ UNCHANGED <<dbVars, call, wish, stacked, weeklyVars, cache>>

\* similarityService.getSimilarBooks called directly
getSimilarBooks ==
  /\ simPc = "idle"
  /\ wkPc = "idle"
  /\ \E req \in Requests(Limits) : EnterService(req.url, req.type, req.limit)

\* similarityController.getSimilarBooks: validate type and url, parse the
\* limit, call the service
ControllerGetSimilarBooks ==
  /\ simPc = "idle"
  /\ wkPc = "idle"
  /\ \E req \in Requests(LimitParams) :
       IF ~ValidBookType(req.type) \/ req.url = ""
       THEN /\ simArgs' = [url |-> req.url, type |-> req.type,
                           limit |-> parseInt(req.limit)]
            /\ referenceBook' = <<>>
            /\ targetBooks' = <<>>
            /\ referenceEmbedding' = <<>>
            /\ similarityScores' = <<>>
            /\ simOutcome' = NoOutcome
            /\ simLog' = NoCalls
            /\ SimFinish(Failure("ValidationError"))
            /\ UNCHANGED <<dbVars, call, wish, stacked, weeklyVars, cache>>
       ELSE EnterService(req.url, req.type, parseInt(req.limit))

\* the reference query resolves
ReferenceQueryOk ==
  /\ simPc = "ref"
  /\ simLog' = [simLog EXCEPT !.store = @ + 1]
  /\ LET referenceBooks == ReferenceQuery(simArgs.type, simArgs.url)
     IN IF Len(referenceBooks) = 0
        THEN /\ SimFinish(Failure("NotFoundError"))
             /\ UNCHANGED referenceBook
        ELSE /\ referenceBook' = <<referenceBooks[1]>>
             /\ simPc' = "targets"
             /\ UNCHANGED simResult
  /\ UNCHANGED <<dbVars, call, wish, stacked, weeklyVars, cache, simArgs, targetBooks,
                 referenceEmbedding, similarityScores, simOutcome>>

\* the candidate query resolves; findSimilarByEmbeddings starts and
\* returns [] at once when there is no candidate
TargetQueryOk ==
  /\ simPc = "targets"
  /\ simLog' = [simLog EXCEPT !.store = @ + 1]
  /\ LET targetDbBooks == TargetQuery(simArgs.type, simArgs.url)
     IN /\ targetBooks' = targetDbBooks
        /\ IF Len(targetDbBooks) = 0
           THEN SimFinish(Success(<<>>))
           ELSE /\ simPc' = "reference"
                /\ UNCHANGED simResult
  /\ UNCHANGED <<dbVars, call, wish, stacked, weeklyVars, cache, simArgs, referenceBook,
                 referenceEmbedding, similarityScores, simOutcome>>

OnStoreError_swallowed == Success(<<>>)

\* the outer catch of getSimilarBooks logs the error and rethrows it
OnStoreError == Failure("StoreError")

\* bookDb.query rejects: the error leaves getSimilarBooks
StoreQueryFail ==
  /\ simPc \in {"ref", "targets"}
  /\ simLog' = [simLog EXCEPT !.store = @ + 1, !.storeFailed = TRUE]
  /\ SimFinish(OnStoreError)
  /\ UNCHANGED <<dbVars, call, wish, stacked, weeklyVars, cache, simArgs, referenceBook,
                 targetBooks, referenceEmbedding, similarityScores, simOutcome>>

OnEmbeddingError_rethrow(refBook, targets, limit) == Failure("ProviderError")

\* the catch block around findSimilarByEmbeddings: log, return the fallback
OnEmbeddingError(refBook, targets, limit) ==
  Success(Fallback(refBook, targets, limit))

\* the promise of getBookEmbedding(referenceBook) never settles (the cache
\* or the embedder never answers): no code races it against a timer, so
\* the await at findSimilarByEmbeddings never resumes
ReferenceLookupHangs ==
  /\ simPc = "reference"
  /\ simOutcome.ref = ""
  /\ simOutcome' = [simOutcome EXCEPT !.ref = "pending"]
  /\ UNCHANGED <<dbVars, call, wish, stacked, weeklyVars, cache, simPc, simArgs,
                 referenceBook, targetBooks, referenceEmbedding,
                 similarityScores, simLog, simResult>>

\* getBookEmbedding(referenceBook) settles as o; when it throws,
\* findSimilarByEmbeddings rethrows and getSimilarBooks falls back
ReferenceEmbedding(o) ==
  /\ simPc = "reference"
  /\ simOutcome.ref = ""
  /\ OutcomePossible(ReferenceBook, o, cache)
  /\ LET r == getBookEmbedding(ReferenceBook, o, cache)
     IN /\ cache' = r.cache
        /\ simLog' = LogEmbedding(simLog, r)
        /\ simOutcome' = [ref |-> o, cand |-> [i \in 1..Len(targetBooks) |-> ""]]
        /\ IF r.thrown
           THEN /\ SimFinish(OnEmbeddingError(ReferenceBook, TargetBooks,
                                              simArgs.limit))
                /\ UNCHANGED <<referenceEmbedding, similarityScores>>
           ELSE /\ referenceEmbedding' = r.value
                /\ similarityScores' = [i \in 1..Len(targetBooks) |-> <<>>]
                /\ simPc' = "candidates"
                /\ UNCHANGED simResult
  /\ UNCHANGED <<dbVars, call, wish, stacked, weeklyVars, simArgs, referenceBook, targetBooks>>

\* the callback given to targetBooks.map for a candidate whose lookup
\* settled as r: the similarity, or -1 from the catch block; it never throws
CandidateScore(refEmbedding, r) ==
  IF r.thrown \/ Len(r.value[1]) # Len(refEmbedding)
  THEN [thrown |-> FALSE, score |-> ErrorScore]
  ELSE [thrown |-> FALSE,
        score |-> calculateCosineSimilarity(refEmbedding, r.value[1])]

Settle_inCompletionOrder(scores, i, score) ==
  LET k == CHOOSE k \in 1..Len(scores) :
             scores[k] = <<>> /\ \A j \in 1..(k - 1) : scores[j] # <<>>
  IN [scores EXCEPT ![k] = <<score>>]

\* targetBooks.map(async ...) gives Promise.all one promise per candidate:
\* the value a callback returns takes the place of its own candidate
Settle(scores, i, score) == [scores EXCEPT ![i] = <<score>>]

\* Promise.all resolves when every callback has returned
AllSettled(scores) == \A j \in 1..Len(scores) : scores[j] # <<>>

\* the lookup of candidate i settles as o (the lookups run concurrently
\* and settle in any order, each touching only the cache entry of its own
\* book). A callback that threw would reject Promise.all and send
\* getSimilarBooks to its fallback; when the last one settles, Promise.all
\* resolves and the ranking is returned
CandidateEmbedding(i, o) ==
  /\ simPc = "candidates"
  /\ i \in 1..Len(targetBooks)
  /\ simOutcome.cand[i] = ""
  /\ OutcomePossible(TargetBooks[i], o, cache)
  /\ LET r == getBookEmbedding(TargetBooks[i], o, cache)
         settled == CandidateScore(referenceEmbedding[1], r)
         scores == Settle(similarityScores, i, settled.score)
     IN /\ cache' = r.cache
        /\ simLog' = LogEmbedding(simLog, r)
        /\ similarityScores' = scores
        /\ simOutcome' = [simOutcome EXCEPT !.cand[i] = o]
        /\ IF settled.thrown
           THEN SimFinish(OnEmbeddingError(ReferenceBook, TargetBooks,
                                           simArgs.limit))
           ELSE IF AllSettled(scores)
           THEN SimFinish(Success(RankByScore(
                  [j \in 1..Len(scores) |->
                     [book |-> TargetBooks[j], score |-> scores[j][1]]],
                  simArgs.limit)))
           ELSE UNCHANGED <<simPc, simResult>>
  /\ UNCHANGED <<dbVars, call, wish, stacked, weeklyVars, simArgs, referenceBook, targetBooks,
                 referenceEmbedding>>

\* the promise of getBookEmbedding for candidate i never settles: its
\* callback never returns and Promise.all stays pending
CandidateLookupHangs(i) ==
  /\ simPc = "candidates"
  /\ i \in 1..Len(targetBooks)
  /\ simOutcome.cand[i] = ""
  /\ simOutcome' = [simOutcome EXCEPT !.cand[i] = "pending"]
  /\ UNCHANGED <<dbVars, call, wish, stacked, weeklyVars, cache, simPc, simArgs,
                 referenceBook, targetBooks, referenceEmbedding,
                 similarityScores, simLog, simResult>>

\* one call is followed from its request to its result; when it starts
\* the cache is cold or holds the vector of every book of the catalog (a
\* partly filled cache arises while the call runs)
InitSimilar ==
  /\ \E c \in Catalogs :
       /\ wish = TableOf(c.wish)
       /\ stacked = TableOf(c.stacked)
       /\ \E cached \in {{}, c.wish \cup c.stacked} :
            cache = [id \in BookIds |->
                       IF id \in cached
                       THEN <<Embed(TextForEmbedding(RowOf(id)))>>
                       ELSE <<>>]
  /\ WeeklyIdle
  /\ SimilarIdle
  /\ call = NoCall
  /\ DbIdle

NextSimilar ==
  \/ getSimilarBooks
  \/ ControllerGetSimilarBooks
  \/ ReferenceQueryOk
  \/ TargetQueryOk
  \/ StoreQueryFail
  \/ \E o \in Outcomes : ReferenceEmbedding(o)
  \/ \E i \in 1..MaxCatalog, o \in Outcomes : CandidateEmbedding(i, o)
  \/ ReferenceLookupHangs
  \/ \E i \in 1..MaxCatalog : CandidateLookupHangs(i)

SpecSimilar == InitSimilar /\ [][NextSimilar]_vars

(***************************************************************************)
(* getSimilarBooks over any cache, next to other calls                     *)
(***************************************************************************)
\* another getSimilarBooks call, running at the same time over the same
\* tables, completes getBookEmbedding for book id: it found no entry when it
\* read the cache (possibly before this call wrote one) and now saves the
\* vector of the embedder under the same key. Writes made before this call
\* reads the cache for the first time are the entries of the initial cache
ConcurrentSave(id) ==
  /\ simPc \in {"reference", "candidates"}
  /\ CacheGet(cache, id) = <<>>
  /\ \E j \in 1..Len(wish \o stacked) : (wish \o stacked)[j] = id
  /\ cache' = getBookEmbedding(convertToAppModel(RowOf(id)), "ok", cache).cache
  /\ cache' # cache
  /\ UNCHANGED <<dbVars, call, wish, stacked, weeklyVars, simPc, simArgs, referenceBook,
                 targetBooks, referenceEmbedding, similarityScores, simOutcome,
                 simLog, simResult>>

\* when the call starts, any subset of the books of the catalog has a cache
\* entry, left by earlier calls: the vector of the embedder for the book.
\* The books are all on the wish list (the candidates of a call come from
\* the table of its reference): two without description, whose vectors are
\* equal, and two with a description
InitCache ==
  /\ \E c \in Catalogs :
       /\ c.stacked = {}
       /\ c.wish \subseteq {"b1", "b2", "b4", "b5"}
       /\ wish = TableOf(c.wish)
       /\ stacked = TableOf(c.stacked)
       /\ \E cached \in SUBSET (c.wish \cup c.stacked) :
            cache = [id \in BookIds |->
                       IF id \in cached
                       THEN <<Embed(TextForEmbedding(RowOf(id)))>>
                       ELSE <<>>]
  /\ WeeklyIdle
  /\ SimilarIdle
  /\ call = NoCall
  /\ DbIdle

\* a call of the service whose store queries resolve and whose lookups
\* all settle, next to the writes of other calls
NextCache ==
  \/ getSimilarBooks
  \/ ReferenceQueryOk
  \/ TargetQueryOk
  \/ \E o \in Outcomes : ReferenceEmbedding(o)
  \/ \E i \in 1..MaxCatalog, o \in Outcomes : CandidateEmbedding(i, o)
  \/ \E id \in BookIds : ConcurrentSave(id)

SpecCache == InitCache /\ [][NextCache]_vars

(***************************************************************************)
(* getSimilarBooks over a table larger than the candidate query's LIMIT    *)
(***************************************************************************)
Keys(table) == {table[i] : i \in 1..Len(table)}

\* findSimilarByEmbeddings in one step, the embedder answering for the
\* reference and for the first k candidates and rejecting every later
\* request (its quota is used up): on a cold cache each lookup asks the
\* embedder once, a rejected candidate gets the error score, and the
\* candidates are ranked
EmbedderAnswersFirst(k) ==
  /\ simPc = "reference"
  /\ simOutcome.ref = ""
  /\ \A id \in Keys(referenceBook \o targetBooks) : CacheGet(cache, id) = <<>>
  /\ LET n == Len(targetBooks)
         answered == IF k < n THEN k ELSE n
         refEmbedding == Embed(TextForEmbedding(ReferenceBook))
         scores ==
           [i \in 1..n |->
              IF i <= answered
              THEN calculateCosineSimilarity(
                     refEmbedding, Embed(TextForEmbedding(TargetBooks[i])))
              ELSE ErrorScore]
     IN /\ cache' = [id \in DOMAIN cache |->
                       IF id \in Keys(referenceBook \o SubSeq(targetBooks, 1, answered))
                       THEN <<Embed(TextForEmbedding(convertToAppModel(RowOf(id))))>>
                       ELSE cache[id]]
        /\ simLog' = [simLog EXCEPT !.cache = @ + (1 + n) + (1 + answered),
                                    !.embed = @ + 1 + n]
        /\ simOutcome' = [ref |-> "ok",
                          cand |-> [i \in 1..n |->
                                      IF i <= answered THEN "ok" ELSE "embedFail"]]
        /\ referenceEmbedding' = <<refEmbedding>>
        /\ similarityScores' = [i \in 1..n |-> <<scores[i]>>]
        /\ SimFinish(Success(RankByScore(
             [i \in 1..n |-> [book |-> TargetBooks[i], score |-> scores[i]]],
             simArgs.limit)))
  /\ UNCHANGED <<dbVars, call, wish, stacked, weeklyVars, simArgs, referenceBook, targetBooks>>

\* one table holds two books and about as many filler rows as the
\* candidate query returns at most, the other table one book; the cache is
\* cold
InitPool ==
  /\ \E n \in (CandidateCap - 1)..(CandidateCap + 1), filled \in BookTypes :
       /\ wish = IF filled = "wish"
                 THEN <<"b1">> \o FillerKeys(n) \o <<"b4">> ELSE <<"b2">>
       /\ stacked = IF filled = "stacked"
                    THEN <<"b1">> \o FillerKeys(n) \o <<"b4">> ELSE <<"b2">>
  /\ cache = [id \in BookIds \cup Keys(FillerKeys(CandidateCap + 1)) |-> <<>>]
  /\ WeeklyIdle
  /\ SimilarIdle
  /\ call = NoCall
  /\ DbIdle

NextPool ==
  \/ getSimilarBooks
  \/ ReferenceQueryOk
  \/ TargetQueryOk
  \/ \E k \in 0..MaxLimit : EmbedderAnswersFirst(k)

SpecPool == InitPool /\ [][NextPool]_vars

(***************************************************************************)
(* The rankers and helper functions, called on their own                   *)
(***************************************************************************)
\* candidate sequences for a reference: distinct books other than the
\* reference, at most MaxCatalog of them
Pools(ref) ==
  {pool \in UNION {[1..n -> SampleIds \ {ref}] : n \in 0..MaxCatalog} :
     \A i, j \in 1..Len(pool) : i # j => pool[i] # pool[j]}

RankerNames ==
  {"findSimilarByTitleAndAuthor", "findSimilarByDescription", "findSimilarByEmbeddings"}

RankerCalls ==
  UNION {[name : RankerNames, done : {FALSE}, referenceBook : {ref},
          targetBooks : Pools(ref), limit : Limits, result : {<<>>}] :
           ref \in SampleIds}

\* the words the texts given to extractKeyTerms are made of
Vocabulary ==
  {<<"T","h","e">>, <<"c","a","t">>, <<"C","a","t",".">>, <<"o","x">>,
   <<"d","o","g","s">>, <<"c","-","a","t">>, <<>>}

RECURSIVE JoinWords(_)
\* the words joined by single spaces
JoinWords(words) ==
  IF words = <<>> THEN <<>>
  ELSE IF Len(words) = 1 THEN words[1]
  ELSE words[1] \o <<" ">> \o JoinWords(Tail(words))

Texts == {JoinWords(words) : words \in UNION {[1..n -> Vocabulary] : n \in 0..MaxWords}}

\* maxTerms as passed by a caller: a small count, or the default
MaxTermsArgs == {Num(n) : n \in 0..MaxLimit} \cup {Num(DefaultMaxTerms)}

KeyTermCalls ==
  [name : {"extractKeyTerms"}, done : {FALSE}, text : Texts,
   maxTerms : MaxTermsArgs, result : {<<>>}]

Vectors == UNION {[1..n -> -MaxCoord..MaxCoord] : n \in 1..2}

CosineCalls ==
  {c \in [name : {"calculateCosineSimilarity"}, done : {FALSE}, vec1 : Vectors,
          vec2 : Vectors, result : {<<>>}] :
     Len(c.vec1) = Len(c.vec2)}

\* getAllBooks: pagination?.limit || 10
DefaultPageSize == 10

\* Math.ceil(a / b) for a >= 0 and b >= 1
CeilDiv(a, b) == (a + b - 1) \div b

\* value || fallback for a number: NaN, undefined and 0 give the fallback
OrDefault(value, fallback) ==
  IF value.nan \/ value.n = 0 THEN fallback ELSE value.n

\* SELECT * FROM table LIMIT limit OFFSET offset, for limit, offset >= 0
LimitOffset(table, limit, offset) ==
  SubSeq(table, offset + 1,
         IF offset + limit < Len(table) THEN offset + limit ELSE Len(table))

\* Database.queryWithPagination without conditions: the page asked for is
\* clamped to 1..max(totalPages, 1) before the rows are read
queryWithPagination(table, page, limit) ==
  LET totalItems == Len(table)
      totalPages == CeilDiv(totalItems, limit)
      lastPage == IF totalPages = 0 THEN 1 ELSE totalPages
      upTo == IF page < lastPage THEN page ELSE lastPage
      validPage == IF upTo > 1 THEN upTo ELSE 1
      offset == (validPage - 1) * limit
  IN [items |-> LimitOffset(table, limit, offset), totalItems |-> totalItems,
      totalPages |-> totalPages]

\* getAllBooks for a valid type whose table holds the given rows
getAllBooks(table, pagination) ==
  LET page == OrDefault(pagination.page, 1)
      limit == OrDefault(pagination.limit, DefaultPageSize)
      result == queryWithPagination(table, page, limit)
  IN [items |-> result.items, totalItems |-> result.totalItems,
      totalPages |-> result.totalPages, currentPage |-> page,
      hasNextPage |-> page < result.totalPages, hasPrevPage |-> page > 1]

\* the pagination parameters of the model: page and limit, each missing
\* (NaN) or a small count
PaginationParams ==
  [page : {NaN} \cup {Num(n) : n \in 0..MaxTicks},
   limit : {NaN} \cup {Num(n) : n \in 0..MaxLimit}]

PageCalls ==
  [name : {"getAllBooks"}, done : {FALSE},
   table : {FillerKeys(n) : n \in 0..(MaxCatalog + 1)},
   pagination : PaginationParams, result : {<<>>}]

\* a function is about to be called with arguments of the model
InitPure ==
  /\ wish = <<>>
  /\ stacked = <<>>
  /\ cache = [id \in BookIds |-> <<>>]
  /\ WeeklyIdle
  /\ SimilarIdle
  /\ call \in RankerCalls \cup KeyTermCalls \cup CosineCalls \cup PageCalls
  /\ DbIdle

Return(result) ==
  /\ call' = [call EXCEPT !.done = TRUE, !.result = result]
  /\ UNCHANGED <<dbVars, wish, stacked, weeklyVars, simVars>>

CallFindSimilarByTitleAndAuthor ==
  /\ call.name = "findSimilarByTitleAndAuthor"
  /\ ~call.done
  /\ Return(findSimilarByTitleAndAuthor(BookOf(call.referenceBook),
                                        BooksAt(call.targetBooks), call.limit))

CallFindSimilarByDescription ==
  /\ call.name = "findSimilarByDescription"
  /\ ~call.done
  /\ Return(findSimilarByDescription(BookOf(call.referenceBook),
                                     BooksAt(call.targetBooks), call.limit))

CallFindSimilarByEmbeddings ==
  /\ call.name = "findSimilarByEmbeddings"
  /\ ~call.done
  /\ Return(findSimilarByEmbeddings(BookOf(call.referenceBook),
                                    BooksAt(call.targetBooks), call.limit))

CallExtractKeyTerms ==
  /\ call.name = "extractKeyTerms"
  /\ ~call.done
  /\ Return(extractKeyTerms(call.text, call.maxTerms))

CallCalculateCosineSimilarity ==
  /\ call.name = "calculateCosineSimilarity"
  /\ ~call.done
  /\ Return(calculateCosineSimilarity(call.vec1, call.vec2))

CallGetAllBooks ==
  /\ call.name = "getAllBooks"
  /\ ~call.done
  /\ Return(getAllBooks(call.table, call.pagination))

NextPure ==
  \/ CallGetAllBooks
  \/ CallFindSimilarByTitleAndAuthor
  \/ CallFindSimilarByDescription
  \/ CallFindSimilarByEmbeddings
  \/ CallExtractKeyTerms
  \/ CallCalculateCosineSimilarity

SpecPure == InitPure /\ [][NextPure]_vars

(***************************************************************************)
(* Database: sync from Firebase, the query queue, retries                  *)
(***************************************************************************)
\* query(): options.retries || 3
DefaultRetries == 3

\* options.retries as callers pass it: missing, or a small count
RetriesArgs == {NaN} \cup {Num(n) : n \in 0..MaxRetries}

\* messages of the errors executeQuery rejects with
ErrorMessages ==
  {"SQLITE_BUSY: database is locked", "resource busy",
   "SQLITE_ERROR: no such table: wish", "SQLITE_ERROR: syntax error"}

\* the phrases query() looks for that a message includes
Phrases(message) ==
  CASE message = "SQLITE_BUSY: database is locked" -> {"database is locked"}
    [] message = "resource busy" -> {"busy"}
    [] message = "SQLITE_ERROR: no such table: wish" -> {"no such table"}
    [] OTHER -> {}

isRetryableError(message) ==
  Phrases(message) \cap {"database is locked", "busy", "no such table"} # {}

\* query(): const maxRetries = options.retries || 3
MaxRetriesOf(retries) == OrDefault(retries, DefaultRetries)

\* connect(): the connection in use when executeQuery starts, given the
\* connection held, the file at config.path and whether a held connection
\* passes the test statement
connect(conn, file, valid) ==
  IF conn # <<>> /\ valid THEN conn ELSE <<file>>

\* processQueryQueue: the order in which the waiting queries are started
DrainOrder_newestFirst(queue) ==
  [i \in 1..Len(queue) |-> queue[Len(queue) + 1 - i]]

DrainOrder(queue) == queue

\* queries after processQueryQueue: executeQuery has started for each
\* waiting query, once and outside of any retry loop
Drained(qs, queue) ==
  [q \in QueryIds |->
     IF q \in {queue[i] : i \in 1..Len(queue)}
     THEN [qs[q] EXCEPT !.pc = "executing", !.execs = @ + 1, !.inSync = isSyncing']
     ELSE qs[q]]

\* the end of a sync that entered the try block: the value returned, the
\* finally block (isSyncing reset, processQueryQueue), with the files and
\* the connection as the steps before left them
SyncReturns(c, value, failed, file, temp, conn) ==
  /\ syncPc' = [syncPc EXCEPT ![c] = "idle"]
  /\ syncReturn' = <<[value |-> value, failed |-> failed]>>
  /\ isSyncing' = FALSE
  /\ localFile' = file
  /\ tempFile' = temp
  /\ db' = IF queryQueue = <<>> THEN conn ELSE connect(conn, file, TRUE)
  /\ queries' = Drained(queries, queryQueue)
  /\ started' = started \o DrainOrder(queryQueue)
  /\ queryQueue' = <<>>
  /\ UNCHANGED <<firebaseService, submitted>>

\* syncDatabaseFromFirebase: the two early returns
Skips_withoutServiceOnly(service, syncing) == ~service

Skips(service, syncing) == ~service \/ syncing

\* syncDatabaseFromFirebase is called: without Firebase service, or while a
\* sync is running, it returns false; otherwise it sets isSyncing and asks
\* shouldUpdateDatabase
SyncCall(c) ==
  /\ c # "initial"
  /\ syncPc[c] = "idle"
  /\ IF Skips(firebaseService, isSyncing)
     THEN /\ syncReturn' = <<[value |-> FALSE, failed |-> FALSE]>>
          /\ UNCHANGED <<isSyncing, syncPc>>
     ELSE /\ isSyncing' = TRUE
          /\ syncPc' = [syncPc EXCEPT ![c] = "check"]
          /\ UNCHANGED syncReturn
  /\ UNCHANGED <<firebaseService, queryQueue, db, localFile, tempFile, queries,
                 submitted, started>>
  /\ UNCHANGED <<call, wish, stacked, weeklyVars, simVars>>

\* shouldUpdateDatabase settles; an error inside it counts as no update
CheckSettles(c) ==
  /\ syncPc[c] = "check"
  /\ \E outcome \in {"update", "fresh", "error"} :
       IF outcome = "update"
       THEN /\ syncPc' = [syncPc EXCEPT ![c] = "download"]
            /\ UNCHANGED <<firebaseService, isSyncing, queryQueue, db, localFile,
                           tempFile, syncReturn, queries, submitted, started>>
       ELSE SyncReturns(c, FALSE, outcome = "error", localFile, tempFile, db)
  /\ UNCHANGED <<call, wish, stacked, weeklyVars, simVars>>

\* fs.renameSync(tempDbPath, config.path) and what follows it, temp being
\* the temporary file and conn the connection held; a failed rename
\* removes the temporary file
Replace(c, temp, conn) ==
  \E renamed \in BOOLEAN :
    IF renamed /\ temp # <<>>
    THEN SyncReturns(c, TRUE, FALSE, temp[1], <<>>, conn)
    ELSE SyncReturns(c, FALSE, TRUE, localFile, <<>>, conn)

\* close(): whether there is a connection to close before the rename
MustClose_never(conn) == FALSE

MustClose(conn) == conn # <<>>

\* downloadDatabase(tempDbPath) settles: the temporary file is written only
\* by a download that finished; then close() is called
DownloadSettles(c) ==
  /\ syncPc[c] = "download"
  /\ \E downloaded \in BOOLEAN :
       IF ~downloaded
       THEN SyncReturns(c, FALSE, TRUE, localFile, tempFile, db)
       ELSE IF MustClose(db)
       THEN /\ syncPc' = [syncPc EXCEPT ![c] = "close"]
            /\ tempFile' = <<"remote">>
            /\ UNCHANGED <<firebaseService, isSyncing, queryQueue, db, localFile,
                           syncReturn, queries, submitted, started>>
       ELSE Replace(c, <<"remote">>, db)
  /\ UNCHANGED <<call, wish, stacked, weeklyVars, simVars>>

\* the callback of db.close: with an error the sync fails, the connection
\* is kept; without, db is reset and the file is replaced
CloseSettles(c) ==
  /\ syncPc[c] = "close"
  /\ \E closed \in BOOLEAN :
       IF closed
       THEN Replace(c, tempFile, <<>>)
       ELSE SyncReturns(c, FALSE, TRUE, localFile, tempFile, db)
  /\ UNCHANGED <<call, wish, stacked, weeklyVars, simVars>>

\* executeQuery starts for a query
Executing(rec) ==
  [rec EXCEPT !.pc = "executing", !.execs = @ + 1, !.inSync = @ \/ isSyncing,
              !.error = <<>>]

\* query(sql, params, {retries}): queued while a sync is running, else
\* the first attempt starts at once
query(q, retries) ==
  /\ queries[q].pc = "idle"
  /\ IF isSyncing
     THEN /\ queries' = [queries EXCEPT ![q] = [@ EXCEPT !.pc = "queued",
                                                  !.retries = retries,
                                                  !.queued = TRUE]]
          /\ queryQueue' = Append(queryQueue, q)
          /\ submitted' = Append(submitted, q)
          /\ UNCHANGED db
     ELSE /\ queries' = [queries EXCEPT ![q] =
                           Executing([@ EXCEPT !.retries = retries])]
          /\ \E valid \in BOOLEAN : db' = connect(db, localFile, valid)
          /\ UNCHANGED <<queryQueue, submitted>>
  /\ UNCHANGED <<firebaseService, isSyncing, localFile, tempFile, syncPc,
                 syncReturn, started>>
  /\ UNCHANGED <<call, wish, stacked, weeklyVars, simVars>>

\* the catch block of query(): whether the error ends the call
Rethrown(rec, message) ==
  ~isRetryableError(message) \/ rec.attempt = MaxRetriesOf(rec.retries)

\* executeQuery settles, with rows or with an error (its timeout included)
QuerySettles(q) ==
  /\ queries[q].pc = "executing"
  /\ \E outcome \in {"rows"} \cup ErrorMessages :
       LET rec == queries[q]
           caught == [rec EXCEPT !.error = <<outcome, rec.attempt>>]
       IN queries' = [queries EXCEPT ![q] =
            IF outcome = "rows" THEN [rec EXCEPT !.pc = "resolved"]
            ELSE IF rec.queued \/ Rethrown(rec, outcome)
            THEN [caught EXCEPT !.pc = "rejected"]
            ELSE [caught EXCEPT !.pc = "delay", !.attempt = @ + 1]]
  /\ UNCHANGED <<firebaseService, isSyncing, queryQueue, db, localFile, tempFile,
                 syncPc, syncReturn, submitted, started>>
  /\ UNCHANGED <<call, wish, stacked, weeklyVars, simVars>>

\* the retry delay of query() is over: the next attempt starts
RetryResumes(q) ==
  /\ queries[q].pc = "delay"
  /\ queries' = [queries EXCEPT ![q] = Executing(@)]
  /\ \E valid \in BOOLEAN : db' = connect(db, localFile, valid)
  /\ UNCHANGED <<firebaseService, isSyncing, queryQueue, localFile, tempFile,
                 syncPc, syncReturn, submitted, started>>
  /\ UNCHANGED <<call, wish, stacked, weeklyVars, simVars>>

\* a Database after construction: with a Firebase service the constructor
\* has called syncDatabaseFromFirebase, which is waiting for
\* shouldUpdateDatabase
InitDb ==
  /\ wish = <<>>
  /\ stacked = <<>>
  /\ cache = [id \in BookIds |-> <<>>]
  /\ WeeklyIdle
  /\ SimilarIdle
  /\ call = NoCall
  /\ firebaseService \in BOOLEAN
  /\ isSyncing = firebaseService
  /\ queryQueue = <<>>
  /\ db = <<>>
  /\ localFile = "local"
  /\ tempFile = <<>>
  /\ syncPc = [c \in Callers |->
                 IF c = "initial" /\ firebaseService THEN "check" ELSE "idle"]
  /\ syncReturn = NoReturn
  /\ queries = [q \in QueryIds |-> NewQuery]
  /\ submitted = <<>>
  /\ started = <<>>

NextDb ==
  \/ \E c \in Callers : SyncCall(c)
  \/ \E c \in Callers : CheckSettles(c)
  \/ \E c \in Callers : DownloadSettles(c)
  \/ \E c \in Callers : CloseSettles(c)
  \/ \E q \in QueryIds : query(q, Num(MaxRetries))
  \/ \E q \in QueryIds : QuerySettles(q)
  \/ \E q \in QueryIds : RetryResumes(q)

\* the Database next to queries that are retried up to MaxRetries times
SpecDb == InitDb /\ [][NextDb]_vars

\* the Database whose pending operations settle: shouldUpdateDatabase,
\* downloadDatabase and close answer (the sync terminates), and executeQuery
\* settles at the latest by its timeout
SyncSettles == \E c \in Callers : CheckSettles(c) \/ DownloadSettles(c) \/ CloseSettles(c)

SpecDbLive ==
  /\ SpecDb
  /\ WF_vars(SyncSettles)
  /\ \A q \in QueryIds : WF_vars(QuerySettles(q))

\* a Database that does not sync
InitRetry ==
  /\ InitDb
  /\ ~firebaseService

NextRetry ==
  \/ \E q \in QueryIds, retries \in RetriesArgs : query(q, retries)
  \/ \E q \in QueryIds : QuerySettles(q)
  \/ \E q \in QueryIds : RetryResumes(q)

\* queries with the retries their callers choose
SpecRetry == InitRetry /\ [][NextRetry]_vars

(***************************************************************************)
(* Both endpoints of the recommendation core                               *)
(***************************************************************************)
Init == InitWeekly

Next == NextWeekly \/ NextSimilar

Spec == Init /\ [][Next]_vars

(***************************************************************************)
(* Properties of getWeeklyRecommendation                                   *)
(***************************************************************************)
CatalogIds ==
  {wish[i] : i \in 1..Len(wish)} \cup {stacked[i] : i \in 1..Len(stacked)}

HasPrimary == \E id \in CatalogIds : RowOf(id).exist_in_UTokyo = "Yes"

HasSecondary == \E id \in CatalogIds : RowOf(id).exist_in_Sophia = "Yes"

WeeklyReturned == wkPc = "done" /\ wkResult.kind = "ok"

C4_SameWeekSamePick ==
  (/\ wkPc = "done"
   /\ wkPrev # <<>>
   /\ wkFailed = {}
   /\ wkPrev[1].failed = {}
   /\ now \div WeekMillis = wkPrev[1].now \div WeekMillis)
  => wkResult = wkPrev[1].result

\* two calls at different clock values of one week, more than one candidate
C4_Witness ==
  /\ wkPc = "done"
  /\ wkPrev # <<>>
  /\ wkFailed = {}
  /\ wkPrev[1].failed = {}
  /\ now # wkPrev[1].now
  /\ now \div WeekMillis = wkPrev[1].now \div WeekMillis
  /\ now \div WeekMillis >= 1
  /\ Len(books) > 1
  /\ wkResult.kind = "ok"

IsInTier(tier, id) ==
  CASE tier = 1 -> RowOf(id).exist_in_UTokyo = "Yes"
    [] tier = 2 -> RowOf(id).exist_in_Sophia = "Yes"
    [] OTHER -> TRUE

TierOf(table, tier) == SelectSeq(table, LAMBDA id : IsInTier(tier, id))

\* the first tier with an item in either partition (3 when there is none)
FirstTier ==
  IF HasPrimary THEN 1 ELSE IF HasSecondary THEN 2 ELSE 3

\* the items of the first non-empty tier of both partitions, sorted by
\* title as one list
SortedAcrossPartitions == OrderByTitle(TierOf(wish \o stacked, FirstTier))

\* the same items, the sorted wish items before the sorted stacked items
SortedPerPartition ==
  OrderByTitle(TierOf(wish, FirstTier)) \o OrderByTitle(TierOf(stacked, FirstTier))

PickedFrom(candidates) ==
  LET index == (now \div WeekMillis) % Len(candidates)
  IN /\ index \in 0..Len(candidates) - 1
     /\ wkResult.value[1].bookmeter_url = candidates[index + 1]

ValidRequest == simArgs.type \in {"wish", "stacked"} /\ simArgs.url # ""

RequestedTable == IF simArgs.type = "wish" THEN wish ELSE stacked

ReferenceExists == \E i \in 1..Len(RequestedTable) : RequestedTable[i] = simArgs.url

Failed(o) == o \in {"readFail", "embedFail", "saveFail"}

\* C1: no failure of the embedder reaches the caller. The only errors are
\* ValidationError, NotFoundError and the store error, and a call with a
\* valid partition, an existing reference and an answering store returns a
\* list, however the embedding lookups end
C1_NoProviderError ==
  simPc = "done" =>
    /\ simResult.kind \in {"ok", "ValidationError", "NotFoundError", "StoreError"}
    /\ ValidRequest /\ ReferenceExists /\ ~simLog.storeFailed
         => simResult.kind = "ok"

\* the embedder failed for the reference, there are candidates, a list is
\* returned
C1_Witness ==
  /\ simPc = "done"
  /\ simOutcome.ref = "embedFail"
  /\ Len(targetBooks) >= 2
  /\ simResult.kind = "ok"

\* C2: when the embedder fails (the reference embedding cannot be had), the
\* result is rankByDescription(reference, pool, limit) for a reference with
\* text and rankByMetadata(reference, pool, limit) otherwise, pool being the
\* whole candidate pool
C2_FallbackRanksWholePool ==
  simPc = "done" /\ simOutcome.ref = "embedFail" =>
    simResult =
      Success(IF HasText(ReferenceBook.description)
              THEN findSimilarByDescription(ReferenceBook, TargetBooks, simArgs.limit)
              ELSE findSimilarByTitleAndAuthor(ReferenceBook, TargetBooks, simArgs.limit))

NonPositiveLimit == simArgs.limit.nan \/ simArgs.limit.n <= 0

\* C8: a call with a non-positive limit (0, negative, not a number) is
\* rejected with ValidationError before any store, cache or embedder call
C8_NonPositiveLimitRejected ==
  simPc # "idle" /\ NonPositiveLimit =>
    /\ simPc = "done"
    /\ simResult.kind = "ValidationError"
    /\ simLog = NoCalls

\* C9: for a valid request whose reference query is answered, the call
\* fails with NotFoundError exactly when no row of the requested table has
\* the url; then one store query was made and no cache or embedder call
C9_NotFoundIffNoReference ==
  simPc = "done" /\ ValidRequest =>
    /\ ~ReferenceExists => simResult.kind \in {"NotFoundError", "StoreError"}
    /\ ~ReferenceExists /\ ~simLog.storeFailed => simResult.kind = "NotFoundError"
    /\ simResult.kind = "NotFoundError" =>
         /\ ~ReferenceExists
         /\ simLog = [NoCalls EXCEPT !.store = 1]
         /\ targetBooks = <<>>

\* the url is a book of the other partition, and the call fails NotFoundError
C9_Witness ==
  /\ simPc = "done"
  /\ ValidRequest
  /\ simArgs.url \in CatalogIds
  /\ ~ReferenceExists
  /\ simResult.kind = "NotFoundError"

\* what findSimilarByEmbeddings returns for the candidates whose lookup
\* succeeded, as if the others were not in the pool
RankingOfSucceeded ==
  LET succeeded == {i \in 1..Len(targetBooks) : ~Failed(simOutcome.cand[i])}
      Keep[i \in 0..Len(targetBooks)] ==
        IF i = 0 THEN <<>>
        ELSE IF i \in succeeded
             THEN Append(Keep[i - 1],
                         [book |-> TargetBooks[i], score |-> similarityScores[i][1]])
             ELSE Keep[i - 1]
  IN RankByScore(Keep[Len(targetBooks)], simArgs.limit)

\* C10: once the reference embedding is had, the call returns a list
\* whichever candidate lookups fail; no candidate whose lookup failed is in
\* the list, and the list is the ranking of the other candidates
C10_CandidateFailuresTolerated ==
  simPc = "done" /\ simOutcome.ref \in {"hit", "ok"} =>
    /\ simResult.kind = "ok"
    /\ \A i \in 1..Len(targetBooks) :
         Failed(simOutcome.cand[i]) => ~Includes(simResult.value, targetBooks[i])
    /\ simResult.value = RankingOfSucceeded

\* one candidate lookup failed, another succeeded and is returned
C10_Witness ==
  /\ simPc = "done"
  /\ simOutcome.ref \in {"hit", "ok"}
  /\ \E i, j \in 1..Len(targetBooks) :
       /\ Failed(simOutcome.cand[i])
       /\ ~Failed(simOutcome.cand[j])
       /\ Includes(simResult.value, targetBooks[j])

\* C11: a call that waits for embedding lookups always goes on, also when a
\* lookup never completes: a timeout ends the lookup, so in no state does
\* the call wait only for lookups that will never settle
C11_LookupsTimeOut ==
  /\ simPc = "reference" => simOutcome.ref # "pending"
  /\ simPc = "candidates" =>
       \E i \in 1..Len(targetBooks) :
         similarityScores[i] = <<>> /\ simOutcome.cand[i] # "pending"

(***************************************************************************)
(* Properties of the rankers                                               *)
(***************************************************************************)
RankerReturned == call.name \in RankerNames /\ call.done

Semantic == call.name = "findSimilarByEmbeddings"

PositionIn(seq, x) == CHOOSE i \in 1..Len(seq) : seq[i] = x

\* the candidates the ranker gives a score, in input order (the lexical
\* ranker scores the candidates that have a description)
Scored ==
  IF call.name = "findSimilarByDescription"
  THEN SelectSeq(call.targetBooks, LAMBDA id : HasText(BookOf(id).description))
  ELSE call.targetBooks

\* the scores the ranker gives the scored candidates, in their order
Scores ==
  CASE call.name = "findSimilarByTitleAndAuthor" ->
         [i \in 1..Len(Scored) |->
            TitleAuthorScore(BookOf(call.referenceBook), BookOf(Scored[i]))]
    [] call.name = "findSimilarByDescription" ->
         DescriptionScores(BookOf(call.referenceBook), BooksAt(Scored))
    [] OTHER ->
         [i \in 1..Len(Scored) |->
            calculateCosineSimilarity(
              Embed(TextForEmbedding(BookOf(call.referenceBook))),
              Embed(TextForEmbedding(BookOf(Scored[i]))))]

\* the score of a scored candidate among the scores of all of them
ScoreIn(scores, id) == scores[PositionIn(Scored, id)]

\* the score the ranker gives a scored candidate
ScoreOf(id) == ScoreIn(Scores, id)

Greater(x, y) == IF Semantic THEN ScoreGt(x, y) ELSE x > y

SameScore(x, y) == ~Greater(x, y) /\ ~Greater(y, x)

\* the scored candidates the ranker does not drop: the semantic ranker
\* drops those with a negative score
KeptBy(scores) ==
  IF Semantic
  THEN SelectSeq(Scored, LAMBDA id : ScoreIn(scores, id).sgn >= 0)
  ELSE Scored

AllSameScore(scores, ids) ==
  \A i, j \in 1..Len(ids) :
    SameScore(ScoreIn(scores, ids[i]), ScoreIn(scores, ids[j]))

\* C12: no ranker returns more than limit items, whatever integer the
\* limit is (no item for a limit below 1)
C12_AtMostLimit ==
  RankerReturned /\ ~call.limit.nan =>
    Len(call.result) <= IF call.limit.n > 0 THEN call.limit.n ELSE 0

\* the output is ordered by non-increasing score
OrderedByScore(scores) ==
  \A i, j \in 1..Len(call.result) :
    i < j => ~Greater(ScoreIn(scores, call.result[j]),
                      ScoreIn(scores, call.result[i]))

\* candidates of equal score keep their input order
TiesInInputOrder(scores) ==
  \A i, j \in 1..Len(call.result) :
    i < j /\ SameScore(ScoreIn(scores, call.result[i]),
                       ScoreIn(scores, call.result[j]))
      => PositionIn(Scored, call.result[i]) < PositionIn(Scored, call.result[j])

MetadataReturned == call.name = "findSimilarByTitleAndAuthor" /\ call.done

\* the lower-cased words of a title, split at runs of whitespace
TitleWords(id) == SplitWhitespace(ToLowerCase(BookOf(id).book_title))

WordSet(words) == {words[i] : i \in 1..Len(words)}

\* the distinct words, the empty word aside, that two titles share
SharedWords(ref, id) ==
  (WordSet(TitleWords(ref)) \cap WordSet(TitleWords(id))) \ {<<>>}

RECURSIVE Matches(_, _)
\* how many of the words, each occurrence counted, are among the others
Matches(words, others) ==
  IF words = <<>> THEN 0
  ELSE (IF Head(words) \in WordSet(others) THEN 1 ELSE 0)
       + Matches(Tail(words), others)

Bonus(ref, id) ==
  (IF BookOf(ref).author = BookOf(id).author THEN 5 ELSE 0)
  + (IF BookOf(ref).publisher = BookOf(id).publisher THEN 2 ELSE 0)

\* every candidate is in the output when the limit allows it
AllTakePart ==
  /\ Len(call.result) = Len(Slice(call.targetBooks, call.limit))
  /\ \A i \in 1..Len(call.result) : Includes(call.targetBooks, call.result[i])

\* C14 as stated: the metadata score is 3*k + 5*[creator equal] +
\* 2*[publisher equal], k the number of distinct words the two titles share
\* (a repeated word counts once, an empty title has no word); candidates of
\* score 0 take part in sort and truncation
C14_ScoreCountsSharedWords ==
  MetadataReturned =>
    /\ \A i \in 1..Len(call.targetBooks) :
         TitleAuthorScore(BookOf(call.referenceBook), BookOf(call.targetBooks[i]))
           = 3 * Cardinality(SharedWords(call.referenceBook, call.targetBooks[i]))
             + Bonus(call.referenceBook, call.targetBooks[i])
    /\ AllTakePart

\* C14, amended: k is the number of words of the reference title, each
\* occurrence counted, that occur in the candidate title; the words of a
\* title are the pieces of its lower-cased text between runs of whitespace,
\* so an empty title has the one word "" and two empty titles share it
C14_ScoreCountsMatchingOccurrences ==
  MetadataReturned =>
    /\ \A i \in 1..Len(call.targetBooks) :
         TitleAuthorScore(BookOf(call.referenceBook), BookOf(call.targetBooks[i]))
           = 3 * Matches(TitleWords(call.referenceBook),
                         TitleWords(call.targetBooks[i]))
             + Bonus(call.referenceBook, call.targetBooks[i])
    /\ AllTakePart

\* the reference title repeats a word of a candidate's title, a candidate
\* of score 0 is in the output
C14_Witness ==
  /\ MetadataReturned
  /\ \E i \in 1..Len(call.targetBooks) :
       Matches(TitleWords(call.referenceBook), TitleWords(call.targetBooks[i]))
         > Cardinality(SharedWords(call.referenceBook, call.targetBooks[i]))
  /\ \E i \in 1..Len(call.result) :
       TitleAuthorScore(BookOf(call.referenceBook), BookOf(call.result[i])) = 0

LexicalReturned == call.name = "findSimilarByDescription" /\ call.done

\* the corpus: the reference text first, then the texts of the candidates
\* with a description, in input order
Corpus ==
  <<BuildDocument(BookOf(call.referenceBook).description)>> \o
  [i \in 1..Len(Scored) |-> BuildDocument(BookOf(Scored[i]).description)]

RECURSIVE SumTfIdf(_, _, _)
\* the sum of TF-IDF(term, document d) over the terms, d counted from 0
SumTfIdf(terms, d, corpus) ==
  IF terms = <<>> THEN 0
  ELSE TfIdfOf(Head(terms), d, corpus) + SumTfIdf(Tail(terms), d, corpus)

KeyTermsOfReference ==
  extractKeyTerms(BookOf(call.referenceBook).description, Num(DefaultMaxTerms))

\* the candidate's document holds none of the terms
HoldsNone(id, terms) ==
  \A k \in 1..Len(terms) :
    ~Includes(BuildDocument(BookOf(id).description), terms[k])

\* the candidate's document holds none of the key terms
HoldsNoKeyTerm(id) == HoldsNone(id, KeyTermsOfReference)

\* C15: the lexical ranker scores the i-th candidate with text as the sum
\* over the key terms of the reference of TF-IDF(term, document i+1), the
\* corpus being the reference text and then the candidates' texts; a
\* candidate without text is never returned, the output is empty when no
\* candidate has text, and a candidate holding no key term scores 0 and
\* comes after every candidate of positive score
C15_LexicalScores ==
  LexicalReturned =>
    LET scores == Scores
        terms == KeyTermsOfReference
        corpus == Corpus
    IN /\ \A i \in 1..Len(Scored) :
            /\ scores[i] = SumTfIdf(terms, i, corpus)
            /\ scores[i] >= 0
            /\ HoldsNone(Scored[i], terms) => scores[i] = 0
       /\ \A i \in 1..Len(call.result) :
            HasText(BookOf(call.result[i]).description)
       /\ Scored = <<>> => call.result = <<>>
       /\ Len(call.result) = Len(Slice(Scored, call.limit))
       /\ \A i, j \in 1..Len(call.result) :
            /\ ScoreIn(scores, call.result[i]) = 0
            /\ ScoreIn(scores, call.result[j]) > 0
            => j < i
       /\ \A i \in 1..Len(Scored) :
            ~Includes(call.result, Scored[i]) =>
              \A j \in 1..Len(call.result) :
                ScoreIn(scores, call.result[j]) >= scores[i]

\* a candidate without text is left out, and a candidate of positive score
\* is returned before a candidate that holds no key term and precedes it in
\* the input
C15_Witness ==
  /\ LexicalReturned
  /\ Len(Scored) < Len(call.targetBooks)
  /\ \E i, j \in 1..Len(call.result) :
       /\ i < j
       /\ ScoreOf(call.result[i]) > 0
       /\ HoldsNoKeyTerm(call.result[j])
       /\ PositionIn(Scored, call.result[j]) < PositionIn(Scored, call.result[i])

(***************************************************************************)
(* Properties of extractKeyTerms and calculateCosineSimilarity             *)
(***************************************************************************)
KeyTermsReturned == call.name = "extractKeyTerms" /\ call.done

\* the tokens of the text: lower-cased, punctuation removed, split at
\* whitespace
TokensOfText ==
  SplitWhitespace(SelectSeq(ToLowerCase(call.text),
                            LAMBDA c : IsWordChar(c) \/ IsSpace(c)))

\* a token that can be a key term
Salient(w) == Len(w) > 2 /\ w \notin KeyTermStopWords

SalientTokens == {w \in WordSet(TokensOfText) : Salient(w)}

FirstSeen(w) ==
  CHOOSE i \in 1..Len(TokensOfText) :
    /\ TokensOfText[i] = w
    /\ \A j \in 1..(i - 1) : TokensOfText[j] # w

\* C16: extractKeyTerms(text, maxTerms) returns the first maxTerms distinct
\* salient tokens (length > 2, no stop word) of the text in first-seen
\* order: at most maxTerms terms, none of length <= 2, no duplicate, and
\* no term for an empty or whitespace-only text
C16_FirstDistinctTerms ==
  KeyTermsReturned =>
    /\ \A i \in 1..Len(call.result) : call.result[i] \in SalientTokens
    /\ \A i, j \in 1..Len(call.result) :
         i < j => FirstSeen(call.result[i]) < FirstSeen(call.result[j])
    /\ Len(call.result) =
         IF Cardinality(SalientTokens) < call.maxTerms.n
         THEN Cardinality(SalientTokens) ELSE call.maxTerms.n
    /\ \A w \in SalientTokens :
         ~Includes(call.result, w) =>
           \A i \in 1..Len(call.result) : FirstSeen(call.result[i]) < FirstSeen(w)
    /\ Len(call.result) <= call.maxTerms.n
    /\ \A i \in 1..Len(call.result) : Len(call.result[i]) > 2
    /\ ~HasText(call.text) => call.result = <<>>

\* a salient token occurs twice, a short word and a later salient token are
\* left out, the result is cut at maxTerms
C16_Witness ==
  /\ KeyTermsReturned
  /\ call.maxTerms.n >= 1
  /\ Len(call.result) = call.maxTerms.n
  /\ Cardinality(SalientTokens) > call.maxTerms.n
  /\ \E i, j \in 1..Len(TokensOfText) :
       i < j /\ TokensOfText[i] = TokensOfText[j] /\ Salient(TokensOfText[i])

CosineReturned == call.name = "calculateCosineSimilarity" /\ call.done

RECURSIVE InnerProduct(_, _)
InnerProduct(a, b) ==
  IF a = <<>> THEN 0 ELSE Head(a) * Head(b) + InnerProduct(Tail(a), Tail(b))

\* C17: for vectors a, b of equal length calculateCosineSimilarity is 0
\* when a or b has zero magnitude (no division by zero), and otherwise
\* dot(a, b) / (|a| * |b|), a value in [-1, 1]: its sign is that of
\* dot(a, b), its square is dot(a, b)^2 / (|a|^2 * |b|^2), and
\* dot(a, b)^2 <= |a|^2 * |b|^2
C17_CosineValue ==
  CosineReturned =>
    LET dot == InnerProduct(call.vec1, call.vec2)
        sq1 == InnerProduct(call.vec1, call.vec1)
        sq2 == InnerProduct(call.vec2, call.vec2)
    IN /\ call.result.den > 0
       /\ sq1 = 0 \/ sq2 = 0 => call.result.sgn = 0 /\ call.result.num = 0
       /\ sq1 # 0 /\ sq2 # 0 =>
            /\ call.result.sgn = (IF dot > 0 THEN 1 ELSE IF dot < 0 THEN -1 ELSE 0)
            /\ call.result.num * (sq1 * sq2) = (dot * dot) * call.result.den
            /\ dot * dot <= sq1 * sq2
       /\ call.result.num <= call.result.den

\* two vectors of non-zero magnitude with a similarity strictly between
\* -1 and 0
C17_Witness ==
  /\ CosineReturned
  /\ InnerProduct(call.vec1, call.vec1) > 0
  /\ InnerProduct(call.vec2, call.vec2) > 0
  /\ call.result.sgn = -1
  /\ call.result.num < call.result.den

(***************************************************************************)
(* Properties of getBookEmbedding and the embedding cache                  *)
(***************************************************************************)
\* the text the embedder is to be called with: the description when it is
\* not blank, "{title} by {author}" otherwise
ExpectedText(id) ==
  IF HasText(RowOf(id).description)
  THEN RowOf(id).description
  ELSE RowOf(id).book_title \o <<" ", "b", "y", " ">> \o RowOf(id).author

\* the cache protocol for one settled lookup of book id that ended as o and
\* returned the vector in returned (<<>> when it threw)
FollowsProtocol(id, o, returned) ==
  /\ cache[id] # <<>> =>
       /\ o \in {"hit", "readFail"}
       /\ simLog'.embed = simLog.embed
       /\ cache' = cache
       /\ o = "hit" => returned = cache[id]
  /\ cache[id] = <<>> =>
       /\ o \in {"readFail", "embedFail", "saveFail", "ok"}
       /\ simLog'.embed = simLog.embed + (IF o = "readFail" THEN 0 ELSE 1)
       /\ o = "ok" =>
            /\ returned = <<Embed(ExpectedText(id))>>
            /\ cache' = [cache EXCEPT ![id] = returned]
       /\ o # "ok" => cache' = cache

LookupSettles(before, after) == before = "" /\ after \notin {"", "pending"}

\* C18: every lookup follows the cache protocol. On a hit the cached vector
\* is returned, the embedder is not called and the cache is unchanged; on
\* a miss the embedder is called exactly once, with the description when
\* that is not blank and with "{title} by {author}" otherwise, and after a
\* successful return the cache holds the returned vector under the book's
\* url
C18_CacheProtocol ==
  [][/\ simPc = "reference" /\ LookupSettles(simOutcome.ref, simOutcome'.ref) =>
          FollowsProtocol(referenceBook[1], simOutcome'.ref, referenceEmbedding')
     /\ simPc = "candidates" =>
          \A i \in 1..Len(targetBooks) :
            LookupSettles(simOutcome.cand[i], simOutcome'.cand[i]) =>
              /\ FollowsProtocol(
                   targetBooks[i], simOutcome'.cand[i],
                   IF simOutcome'.cand[i] = "hit" THEN cache[targetBooks[i]]
                   ELSE IF simOutcome'.cand[i] = "ok" THEN cache'[targetBooks[i]]
                   ELSE <<>>)
              /\ simOutcome'.cand[i] \in {"hit", "ok"} =>
                   similarityScores'[i] =
                     <<calculateCosineSimilarity(
                         referenceEmbedding[1],
                         IF simOutcome'.cand[i] = "hit"
                         THEN cache[targetBooks[i]][1]
                         ELSE Embed(ExpectedText(targetBooks[i])))>>]_vars

\* the reference, a book with a description, was looked up on a cold cache
\* and is now cached; so is a candidate without description, embedded from
\* its title and author
C18_Witness ==
  /\ simPc = "done"
  /\ simOutcome.ref = "ok"
  /\ HasText(ReferenceBook.description)
  /\ cache[referenceBook[1]] = <<Embed(ReferenceBook.description)>>
  /\ \E i \in 1..Len(targetBooks) :
       /\ simOutcome.cand[i] = "ok"
       /\ ~HasText(TargetBooks[i].description)
       /\ cache[targetBooks[i]] # <<>>

\* the call went through findSimilarByEmbeddings to the ranking: there were
\* candidates and the lookup of the reference did not throw
RankedByEmbeddings ==
  /\ simPc = "done"
  /\ simResult.kind = "ok"
  /\ Len(targetBooks) > 0
  /\ simOutcome.ref \in {"hit", "ok"}

EveryLookupAnswered ==
  \A i \in 1..Len(targetBooks) : simOutcome.cand[i] \in {"hit", "ok"}

\* C19: whichever books have a cache entry when the call starts, and
\* whichever lookups are therefore served from the cache or by the
\* embedder, a call whose lookups all answer returns the list that
\* findSimilarByEmbeddings gives as a function of the reference, the
\* candidates and the limit alone
C19_PureCache ==
  RankedByEmbeddings /\ EveryLookupAnswered =>
    simResult.value =
      findSimilarByEmbeddings(ReferenceBook, TargetBooks, simArgs.limit)

\* a call over a partly filled cache: the reference and one candidate were
\* served from the cache, another candidate by the embedder, and a book is
\* returned
C19_Witness ==
  /\ RankedByEmbeddings
  /\ EveryLookupAnswered
  /\ simOutcome.ref = "hit"
  /\ \E i, j \in 1..Len(targetBooks) :
       simOutcome.cand[i] = "hit" /\ simOutcome.cand[j] = "ok"
  /\ Len(simResult.value) > 0

\* the score of candidate i as its lookup ended: the similarity of the
\* vectors of the embedder, or the error score when the lookup threw
ScoreByOutcome(i) ==
  IF simOutcome.cand[i] \in {"hit", "ok"}
  THEN calculateCosineSimilarity(
         Embed(TextForEmbedding(ReferenceBook)),
         Embed(TextForEmbedding(TargetBooks[i])))
  ELSE ErrorScore

\* C20: the ranking is made only when every candidate lookup has settled,
\* and the list returned is the ranking of the candidates by the score
\* each one's own lookup gave: it depends neither on the order in which
\* the lookups completed nor on the writes of other calls to the same
\* cache keys
C20_InterleavingIndependent ==
  RankedByEmbeddings =>
    /\ \A i \in 1..Len(targetBooks) :
         similarityScores[i] # <<>> /\ simOutcome.cand[i] \in Outcomes
    /\ simResult.value =
         RankByScore(
           [i \in 1..Len(targetBooks) |->
              [book |-> TargetBooks[i], score |-> ScoreByOutcome(i)]],
           simArgs.limit)

\* a ranking was returned after another call wrote the cache key of a
\* candidate: the lookup of that candidate found no entry and its embedder
\* call failed, yet the entry is there at the end; another candidate was
\* scored from its vector
C20_Witness ==
  /\ RankedByEmbeddings
  /\ \E i, j \in 1..Len(targetBooks) :
       /\ simOutcome.cand[i] = "embedFail"
       /\ cache[targetBooks[i]] # <<>>
       /\ simOutcome.cand[j] \in {"hit", "ok"}
       /\ similarityScores[j] # <<ErrorScore>>
  /\ Len(simResult.value) > 0

(***************************************************************************)
(* Exclusion of candidates and failures of the cache                       *)
(***************************************************************************)
\* the candidates whose lookup returned a vector
Obtained == {i \in 1..Len(targetBooks) : simOutcome.cand[i] \in {"hit", "ok"}}

\* C28: the ranking leaves out exactly the candidates whose lookup failed:
\* for a limit n >= 0 the list has min(n, number of candidates whose
\* vector was obtained) items, whatever their similarity to the reference
C28_ObtainedTakePart ==
  RankedByEmbeddings /\ ~simArgs.limit.nan /\ simArgs.limit.n >= 0 =>
    Len(simResult.value) =
      IF simArgs.limit.n < Cardinality(Obtained)
      THEN simArgs.limit.n ELSE Cardinality(Obtained)

\* the embedder answered every request it got during the call
EmbedderAnswered ==
  /\ simOutcome.ref # "embedFail"
  /\ \A i \in 1..Len(targetBooks) : simOutcome.cand[i] # "embedFail"

\* C29: a failure of a cache read or of a cache write does not change the
\* list: a call with candidates in which the embedder never failed returns
\* the list findSimilarByEmbeddings gives for its arguments, cache failures
\* or not
C29_CacheFailuresHarmless ==
  simPc = "done" /\ simResult.kind = "ok" /\ Len(targetBooks) > 0
    /\ EmbedderAnswered =>
      simResult.value =
        findSimilarByEmbeddings(ReferenceBook, TargetBooks, simArgs.limit)

(***************************************************************************)
(* Properties of the candidate pool                                        *)
(***************************************************************************)
\* the candidate query of the call has resolved
PoolLoaded == simPc \in {"reference", "candidates", "done"} /\ simLog.store = 2

\* C21: the candidates are rows of the requested table, none is the
\* reference, and there are at most 100 of them; the list returned holds
\* candidates only, so never the reference, and at most 100 vectors of
\* candidates are asked of the embedder
C21_PoolBounded ==
  PoolLoaded =>
    /\ \A i \in 1..Len(targetBooks) :
         /\ targetBooks[i] \in Keys(TableNamed(simArgs.type))
         /\ targetBooks[i] # simArgs.url
         /\ targetBooks[i] # referenceBook[1]
    /\ Len(targetBooks) <= 100
    /\ simLog.embed <= 1 + 100
    /\ simPc = "done" /\ simResult.kind = "ok" =>
         \A i \in 1..Len(simResult.value) :
           /\ simResult.value[i] # simArgs.url
           /\ simResult.value[i] \in Keys(targetBooks)

\* the table holds more than 100 rows besides the reference, 100 of them
\* were taken as candidates and embedded, and books were returned
C21_Witness ==
  /\ PoolLoaded
  /\ simPc = "done"
  /\ Cardinality(Keys(TableNamed(simArgs.type)) \ {simArgs.url}) > 100
  /\ Len(targetBooks) = 100
  /\ simLog.embed = 101
  /\ Len(simResult.value) > 0

(***************************************************************************)
(* Weekly picks over the weeks                                             *)
(***************************************************************************)
\* this weekly call and the one completed before it both returned a book,
\* picked from the same list of more than one candidate
SameCandidates ==
  /\ wkPc = "done"
  /\ wkPrev # <<>>
  /\ wkResult.kind = "ok"
  /\ wkPrev[1].result.kind = "ok"
  /\ books = wkPrev[1].books
  /\ Len(books) > 1

PrevWeek == wkPrev[1].now \div WeekMillis

ThisWeek == now \div WeekMillis

\* C22: over the same candidates, more than one, the picks of two
\* consecutive weeks differ, and the picks of two weeks are the same item
\* exactly when the week numbers differ by a multiple of the number of
\* candidates (the picks repeat with that period and no shorter one)
C22_PicksRotate ==
  SameCandidates =>
    /\ ThisWeek = PrevWeek + 1 => wkResult # wkPrev[1].result
    /\ wkResult = wkPrev[1].result
         <=> (ThisWeek - PrevWeek) % Len(books) = 0

\* the pick of week w + 1 differs from the pick of week w, two candidates
C22_Witness ==
  /\ SameCandidates
  /\ Len(books) = 2
  /\ ThisWeek = PrevWeek + 1
  /\ wkResult # wkPrev[1].result

\* the pick of week w + 2 is the pick of week w, two candidates
C22_WitnessPeriod ==
  /\ SameCandidates
  /\ Len(books) = 2
  /\ ThisWeek = PrevWeek + 2
  /\ wkResult = wkPrev[1].result

\* C30: the page metadata getAllBooks returns describes the items it
\* returns: for a requested page >= 1 and limit >= 1 the items are rows
\* (currentPage-1)*limit .. currentPage*limit-1 of the table, currentPage is
\* within 1..max(totalPages, 1), hasNextPage holds iff currentPage is below
\* totalPages and hasPrevPage iff currentPage is above 1
C30_MetadataDescribesItems ==
  (/\ call.name = "getAllBooks"
   /\ call.done
   /\ ~call.pagination.page.nan /\ call.pagination.page.n >= 1
   /\ ~call.pagination.limit.nan /\ call.pagination.limit.n >= 1) =>
    LET r == call.result
        limit == call.pagination.limit.n
    IN /\ r.items = LimitOffset(call.table, limit, (r.currentPage - 1) * limit)
       /\ 1 <= r.currentPage
       /\ r.currentPage <= (IF r.totalPages > 1 THEN r.totalPages ELSE 1)
       /\ r.hasNextPage <=> r.currentPage < r.totalPages
       /\ r.hasPrevPage <=> r.currentPage > 1


\* C24: no query is executed while a sync is in progress: executeQuery is
\* never started while isSyncing is true, neither for a query submitted
\* during the sync (it is only queued) nor for a retry attempt of a query
\* submitted before the sync began
C24_NoExecutionDuringSync ==
  /\ \A q \in QueryIds : ~queries[q].inSync
  /\ isSyncing => \A i \in 1..Len(queryQueue) : queries[queryQueue[i]].pc = "queued"

\* C27: query() with a chosen retries = r >= 0 executes the statement at
\* most r+1 times (once when r = 0), waits for another attempt only after
\* an error whose message holds one of the three phrases, and a rejection
\* carries the error of the last attempt
C27_RetriesAsChosen ==
  \A q \in QueryIds :
    LET rec == queries[q]
    IN rec.pc # "idle" /\ ~rec.retries.nan =>
         /\ rec.execs <= rec.retries.n + 1
         /\ rec.pc = "delay" => isRetryableError(rec.error[1])
         /\ rec.pc = "rejected" => rec.error[2] = rec.execs - 1


\* the callers whose call of syncDatabaseFromFirebase is past the early
\* returns and has not returned
InSync == {c \in Callers : syncPc[c] # "idle"}

\* C26: at most one execution of the body of syncDatabaseFromFirebase is
\* in progress at any time, and a call made while another sync is running
\* returns false at once without downloading, closing the connection,
\* replacing the file, clearing isSyncing or draining the query queue
C26_OneSyncAtATime ==
  /\ [](Cardinality(InSync) <= 1)
  /\ [][\A c \in Callers :
          InSync # {} /\ SyncCall(c) =>
            /\ syncReturn' = <<[value |-> FALSE, failed |-> FALSE]>>
            /\ UNCHANGED <<isSyncing, queryQueue, db, localFile, tempFile,
                           syncPc, queries, started>>]_vars

\* the initial sync is still running, queries are waiting, and a second
\* call has returned false
C26_Witness ==
  /\ syncPc["initial"] = "download"
  /\ isSyncing
  /\ queryQueue # <<>>
  /\ syncReturn = <<[value |-> FALSE, failed |-> FALSE]>>


SyncEnds == \E c \in Callers : syncPc[c] # "idle" /\ syncPc'[c] = "idle"

Waiting == {queryQueue[i] : i \in 1..Len(queryQueue)}

Settled(q) == queries[q].pc \in {"resolved", "rejected"}

\* C25: a sync that entered the critical section ends with isSyncing reset
\* and the queue drained; each query queued during the sync is started
\* exactly once, in submission order, none is lost or left waiting once
\* the sync has ended, and its promise is eventually resolved or rejected
\* when the sync terminates
C25_QueueDrained ==
  /\ [][SyncEnds =>
         /\ ~isSyncing'
         /\ queryQueue' = <<>>
         /\ started' = submitted
         /\ \A q \in Waiting : queries'[q].pc = "executing"]_vars
  /\ [](/\ Len(started) <= Len(submitted)
        /\ started = SubSeq(submitted, 1, Len(started))
        /\ queryQueue = SubSeq(submitted, Len(started) + 1, Len(submitted))
        /\ ~isSyncing => queryQueue = <<>>
        /\ \A q \in QueryIds :
             queries[q].queued =>
               queries[q].execs = (IF q \in Waiting THEN 0 ELSE 1))
  /\ \A q \in QueryIds : (queries[q].pc = "queued") ~> Settled(q)

\* two queries waited for the same sync, were started in the order of
\* their submission when it ended, and both promises have settled
C25_Witness ==
  /\ ~isSyncing
  /\ Len(submitted) = 2
  /\ started = submitted
  /\ queries[started[1]].pc = "resolved"
  /\ queries[started[2]].pc = "rejected"
  /\ \A q \in QueryIds : queries[q].execs = 1


\* C23: a sync that fails at any step returns false and leaves the file at
\* config.path as it was; the file is replaced only by a completely
\* downloaded temporary file, at the end of a sync that returns true, and
\* only when the connection has been closed; a connection that is open is
\* open on the file at config.path, so later queries run against it
C23_FailedSyncKeepsFile ==
  /\ [][(SyncEnds /\ syncReturn'[1].failed) =>
           (~syncReturn'[1].value /\ localFile' = localFile)]_vars
  /\ [][(localFile' # localFile) =>
           /\ SyncEnds
           /\ syncReturn' = <<[value |-> TRUE, failed |-> FALSE]>>
           /\ localFile' = "remote"
           /\ tempFile' = <<>>
           /\ (db # <<>>) => (\E c \in Callers : syncPc[c] = "close")
           /\ (db' # <<>>) => (db' = <<"remote">> /\ queryQueue # <<>>)]_vars
  /\ [](db # <<>> => db = <<localFile>>)

\* a sync has failed after its download (the temporary file is still
\* there), the file is the local one, and a query that waited for the end
\* of that sync was answered from it
C23_Witness ==
  /\ syncReturn = <<[value |-> FALSE, failed |-> TRUE]>>
  /\ tempFile = <<"remote">>
  /\ localFile = "local"
  /\ db = <<"local">>
  /\ \E q \in QueryIds : queries[q].queued /\ queries[q].pc = "resolved"

====
